---- MODULE Spec2Model ----
(***************************************************************************)
(* A model of the Sudo Profiles client (sudo-profiles-js): the profile     *)
(* orchestrator (createSudo / updateSudo / deleteSudo / listSudos), the    *)
(* cached list snapshot kept in the GraphQL client's query cache, the blob *)
(* cache, the key store and the subscription managers.                     *)
(*                                                                         *)
(* The repository holds two revisions of the client.  Revision "A" is      *)
(* src/src/sudo/sudo-profiles-client.ts with src/src/client/apiClient.ts   *)
(* and src/src/core/query-cache.ts; revision "B" is the client in          *)
(* src/src/sudo/entitlement.ts with the ApiClient of src/unnamed/part_012  *)
(* (mutations with update callbacks).  The variable rev says which one     *)
(* runs; it never changes.                                                 *)
(***************************************************************************)
EXTENDS Integers, Sequences, FiniteSets, TLC

\* ------------------------------------------------------------------ bounds
MaxSudos == 2        \* records the backend ever creates
MaxVersion == 3      \* highest record version the backend reaches
MaxCacheLen == 2     \* longest cached list snapshot
MaxBlobSudos == 1    \* records created where calls carry files
MaxPending == 2      \* events in flight at once

\* ------------------------------------------------------------- value sets
Revisions == {"A", "B"}
NoId == 0                                 \* sudo.id undefined
SudoIds == 1..MaxSudos
BlobSudoIds == 1..MaxBlobSudos
NoValue == "none"                         \* claim / buffer absent
TitleInputs == {"", "a"}             \* sudo.title as supplied by a caller
FileInputs == {NoValue, "f1"}       \* BlobClaimValue.file of sudo's avatar
BlobTitleInputs == {"", "a"}
KEY_NAME_SYMMETRIC_KEY_ID == "symmetricKeyId"
KeyIds == {"k1"}
RotatedKeyIds == {"k1", "k2"}            \* key ids of a client that rotates keys
KeyNames == RotatedKeyIds \cup {KEY_NAME_SYMMETRIC_KEY_ID}
KeyMaterial == {"m1"}
\* The bytes of the key an application stores under a key id.
KeyBytes(keyId) == IF keyId = "k1" THEN "m1" ELSE "m2"
ChangeTypes == {"Create", "Update", "Delete"}
FetchOption == {"cache-only", "network-only", "no-cache", "cache-first"}

VARIABLES
  rev,        \* client revision, "A" or "B"
  keyStore,   \* KeyStore.#secrets: key name -> bytes (NoValue: absent)
  pushed,     \* what pushSymmetricKey was called with: the key id of the
              \* latest call and, per key id, the key of its latest call
  signedIn,   \* sudoUserClient.getSubject() returns a subject
  backend,    \* the service's records: a set of GraphQL Sudo items
  tomb,       \* records the service has deleted (payloads of onDeleteSudo)
  s3,         \* object storage: sudo id -> ciphertext of its avatar object
  cacheInit,  \* the query cache holds a ListSudos result
  cacheList,  \* that result's items, in order
  blobCache,  \* localForage blob cache: sudo id -> plaintext of its avatar
  subs,       \* per change type: the SubscriptionManager's fields
  open,       \* per change type: transport subscriptions currently open
  told,       \* per change type: the registered subscribers that were told
              \* Connected since they last subscribed
  pending,    \* events the service has published and not yet delivered
  inflight,   \* callbacks and calls suspended at an await: what each is
              \* and what it had read or done when it was suspended
  last        \* the last operation: its name, outcome, remote calls, notes

vars == <<rev, keyStore, pushed, signedIn, backend, tomb, s3, cacheInit, cacheList,
          blobCache, subs, open, told, pending, inflight, last>>

\* ------------------------------------------------------------- wire forms
\* Ciphertext of plaintext x under key bytes m (AES-CBC; only m inverts it).
Ciphertext(m, x) == <<m, x>>
NoCipher == <<>>
\* SecureClaim / SecureS3Object of the schema; keyId NoValue: no such claim.
NoSecure == [keyId |-> NoValue, data |-> NoCipher]
Secure(k, c) == [keyId |-> k, data |-> c]
\* A GraphQL Sudo: one string claim (title) and one object (avatar).
GQLSudo(id, version, title, avatar) ==
  [id |-> id, version |-> version, title |-> title, avatar |-> avatar]
\* The client's Sudo as returned to callers: decrypted title, avatar bytes.
Sudo(id, version, title, file) ==
  [id |-> id, version |-> version, title |-> title, file |-> file]

Ids(items) == {i.id : i \in items}
Find(items, id) == CHOOSE i \in items : i.id = id
Range(seq) == {seq[n] : n \in DOMAIN seq}
Filter(seq, Keep(_)) == SelectSeq(seq, Keep)

\* Base64.encode / Base64.decode of a ciphertext.
Base64Encode(c) == <<"b64">> \o c
Base64Decode(b) == Tail(b)


\* ------------------------------------------------------------ key manager
\* DefaultKeyManager.getKey: the bytes stored under keyId, or absent.
getKey(ks, keyId) == IF keyId \in DOMAIN ks THEN ks[keyId] ELSE NoValue

\* What a caller hands to insertKey: an ArrayBuffer, as the signature says,
\* or a typed array over one (TextEncoder.encode), as the tests do.
Backings == {"ArrayBuffer", "Uint8Array"}
\* A buffer after new Uint8Array(buffer).fill(0).
Zeros == "zeros"
\* A wipe that reaches the buffer it is given whatever its kind.
wipedInPlace(value, backing) == Zeros

\* What a buffer holds after new Uint8Array(buffer).fill(0): the typed array
\* made from an ArrayBuffer is a view of it, so the buffer is zeroed; the
\* one made from a typed array is a copy, and the typed array keeps its
\* bytes.
wiped(value, backing) == IF backing = "ArrayBuffer" THEN Zeros ELSE value

\* The kind of a stored entry.  setSymmetricKeyId stores a typed array
\* (TextEncoder.encode); insertKey stores what it is given and wipes it, so
\* an entry that is an ArrayBuffer holds zeros.
backingOf(value) == IF value = Zeros THEN "ArrayBuffer" ELSE "Uint8Array"

\* DefaultKeyManager.insertKey: KeyStore.setItem keeps the caller's value by
\* reference, then new Uint8Array(value).fill(0) wipes it: a view of the
\* stored buffer when value is an ArrayBuffer, a copy when it is a typed
\* array.
insertKey(ks, keyId, value, backing) ==
  [ks EXCEPT ![keyId] = wiped(value, backing)]

\* DefaultKeyManager.deleteKey: KeyStore.removeItem.
deleteKey(ks, keyId) == [ks EXCEPT ![keyId] = NoValue]

\* DefaultKeyManager.reset: KeyStore.clear.
reset(ks) == [n \in DOMAIN ks |-> NoValue]

\* A getSymmetricKeyId that answers with a default id when no alias is stored.
getSymmetricKeyIdDefaulted(ks) ==
  IF ks[KEY_NAME_SYMMETRIC_KEY_ID] = NoValue THEN "k1" ELSE ks[KEY_NAME_SYMMETRIC_KEY_ID]

\* getSymmetricKeyId: the stored alias decoded as text; TextDecoder.decode of
\* undefined is the empty string, which the callers test as "no key id".
getSymmetricKeyId(ks) ==
  IF ks[KEY_NAME_SYMMETRIC_KEY_ID] = NoValue THEN "" ELSE ks[KEY_NAME_SYMMETRIC_KEY_ID]

\* An encrypt that takes the key stored under "k1" whatever the key id.
encryptUnderFirstKey(ks, keyId, data) ==
  IF getKey(ks, keyId) = NoValue
  THEN [ok |-> FALSE, error |-> "KeyNotFound", data |-> NoCipher]
  ELSE [ok |-> TRUE, error |-> "", data |-> <<getKey(ks, "k1"), data>>]

\* A decrypt that goes on with an empty key when none is stored under the
\* key id.
decryptWithEmptyKey(ks, keyId, cipher) ==
  IF cipher = NoCipher \/ (getKey(ks, keyId) # NoValue /\ cipher[1] # getKey(ks, keyId))
  THEN [ok |-> FALSE, error |-> "DecryptError", data |-> NoValue]
  ELSE [ok |-> TRUE, error |-> "", data |-> cipher[2]]

\* AesSecurityProvider.encrypt / decrypt (revision B: the key manager's
\* encryptWithSymmetricKeyName / decryptWithSymmetricKeyName).
encrypt(ks, keyId, data) ==
  IF getKey(ks, keyId) = NoValue
  THEN [ok |-> FALSE, error |-> "KeyNotFound", data |-> NoCipher]
  ELSE [ok |-> TRUE, error |-> "", data |-> Ciphertext(getKey(ks, keyId), data)]

decrypt(ks, keyId, cipher) ==
  IF getKey(ks, keyId) = NoValue
  THEN [ok |-> FALSE, error |-> "KeyNotFound", data |-> NoValue]
  ELSE IF cipher = NoCipher \/ cipher[1] # getKey(ks, keyId)
  THEN [ok |-> FALSE, error |-> "DecryptError", data |-> NoValue]
  ELSE [ok |-> TRUE, error |-> "", data |-> cipher[2]]

\* --------------------------------------------------------------- the world
\* What the orchestrator's operations read and write, as one record, so that
\* createSudo can run updateSudo on the state its create mutation left.
World ==
  [backend |-> backend, tomb |-> tomb, s3 |-> s3, cacheInit |-> cacheInit,
   cacheList |-> cacheList, blobCache |-> blobCache]

NoItem == GQLSudo(NoId, 0, NoSecure, NoSecure)
Outcome(w, result, calls, returned) ==
  [w |-> w, result |-> result, calls |-> calls, returned |-> returned,
   sent |-> <<>>]
\* A mutation request as the ApiClient sends it: the mutation, the id and
\* expectedVersion of its input (create has neither), its claims and objects.
Request(mutation, id, expectedVersion, claims, objects) ==
  [mutation |-> mutation, id |-> id, expectedVersion |-> expectedVersion,
   claims |-> claims, objects |-> objects]
\* An outcome together with the mutation requests that were sent, in order.
Sending(requests, outcome) == [outcome EXCEPT !.sent = requests]

\* The items of a set of records in ascending id order (the service's list).
RECURSIVE ById(_)
ById(items) ==
  IF items = {} THEN <<>>
  ELSE LET lo == CHOOSE i \in items : \A j \in items : i.id <= j.id
       IN <<lo>> \o ById(items \ {lo})

\* Array.prototype.map over the cached items.
MapSeq(seq, F(_)) == [n \in DOMAIN seq |-> F(seq[n])]
HasId(seq, id) == \E n \in DOMAIN seq : seq[n].id = id
\* Array.prototype.find by id: the first match.
FindFirst(seq, id) == seq[CHOOSE n \in DOMAIN seq :
                          seq[n].id = id /\ \A m \in 1..(n - 1) : seq[m].id # id]

\* ------------------------------------------------------------- ApiClient
\* ApiClient.createSudo: the service assigns a fresh id and version 1.  In
\* revision B the mutation's update callback appends the new record to the
\* cached ListSudos result when there is one and the id is not in it
\* (readQuery throws when the query was never cached; the client library
\* logs that and goes on).
apiCreateSudo(w, rv, claims, objects) ==
  LET newSudo == GQLSudo(Cardinality(Ids(w.backend) \cup Ids(w.tomb)) + 1, 1,
                         claims, objects)
      items == IF rv = "B" /\ w.cacheInit /\ ~HasId(w.cacheList, newSudo.id)
               THEN Append(w.cacheList, newSudo) ELSE w.cacheList
  IN [w |-> [w EXCEPT !.backend = @ \cup {newSudo}, !.cacheList = items],
      result |-> "ok", item |-> newSudo]

\* A service that applies an update and leaves the version as it was.
serviceUpdateSudoSameVersion(stored, title, avatar) ==
  [stored EXCEPT !.title = IF title = NoSecure THEN @ ELSE title,
                 !.avatar = IF avatar = NoSecure THEN @ ELSE avatar]

\* The service's updateSudo resolver: optimistic concurrency on version,
\* claims and objects given replace those of the same name.
serviceUpdateSudo(stored, title, avatar) ==
  [stored EXCEPT !.version = @ + 1,
                 !.title = IF title = NoSecure THEN @ ELSE title,
                 !.avatar = IF avatar = NoSecure THEN @ ELSE avatar]

\* A service that applies an update whatever version the caller expected.
apiUpdateSudoAnyVersion(w, rv, id, expectedVersion, title, avatar) ==
  IF id \notin Ids(w.backend)
  THEN [w |-> w, result |-> "SudoNotFoundError", item |-> NoItem]
  ELSE LET stored == Find(w.backend, id)
           updatedSudo == serviceUpdateSudo(stored, title, avatar)
       IN [w |-> [w EXCEPT !.backend = (@ \ {stored}) \cup {updatedSudo}],
           result |-> "ok", item |-> updatedSudo]

\* ApiClient.updateSudo.  Revision B's update callback replaces the entry of
\* the same id in a non-empty cached result.
apiUpdateSudo(w, rv, id, expectedVersion, title, avatar) ==
  IF id \notin Ids(w.backend)
  THEN [w |-> w, result |-> "SudoNotFoundError", item |-> NoItem]
  ELSE IF Find(w.backend, id).version # expectedVersion
  THEN [w |-> w, result |-> "VersionMismatchError", item |-> NoItem]
  ELSE
    LET stored == Find(w.backend, id)
        updatedSudo == serviceUpdateSudo(stored, title, avatar)
        Replace(item) == IF item.id = updatedSudo.id THEN updatedSudo ELSE item
        items == IF rv = "B" /\ w.cacheInit /\ Len(w.cacheList) > 0
                 THEN MapSeq(w.cacheList, Replace) ELSE w.cacheList
    IN [w |-> [w EXCEPT !.backend = (@ \ {stored}) \cup {updatedSudo},
                        !.cacheList = items],
        result |-> "ok", item |-> updatedSudo]

\* ApiClient.deleteSudo.  Revision B's update callback filters the deleted
\* id out of a non-empty cached result; revision A leaves the cache alone.
apiDeleteSudo(w, rv, id, expectedVersion) ==
  IF id \notin Ids(w.backend)
  THEN [w |-> w, result |-> "SudoNotFoundError", item |-> NoItem]
  ELSE IF Find(w.backend, id).version # expectedVersion
  THEN [w |-> w, result |-> "VersionMismatchError", item |-> NoItem]
  ELSE
    LET deletedSudo == Find(w.backend, id)
        Keep(item) == item.id # deletedSudo.id
        items == IF rv = "B" /\ w.cacheInit /\ Len(w.cacheList) > 0
                 THEN Filter(w.cacheList, Keep) ELSE w.cacheList
    IN [w |-> [w EXCEPT !.backend = @ \ {deletedSudo},
                        !.tomb = @ \cup {deletedSudo},
                        !.cacheList = items],
        result |-> "ok", item |-> deletedSudo]

\* ApiClient.replaceCachedQueryItems: writeQuery of the whole list.
replaceCachedQueryItems(w, items) ==
  [w EXCEPT !.cacheInit = TRUE, !.cacheList = items]

\* ApiClient.getCachedQueryItems: listSudos(CacheOnly); nothing cached reads
\* as the empty list.
getCachedQueryItems(w) == IF w.cacheInit THEN w.cacheList ELSE <<>>

\* DefaultQueryCache.add: reads the cached items, clones them, and writes
\* `data`; `data.concat(clonedCachedData)` returns a new array that is
\* dropped, so `data` holds the added item alone.
queryCacheAdd(w, item) ==
  LET clonedCachedData == getCachedQueryItems(w)
      data == <<>>
      concatenated == data \o clonedCachedData   \* result discarded by the code
  IN [w EXCEPT !.cacheInit = TRUE, !.cacheList = Append(data, item)]


\* -------------------------------------------------- DefaultSudoProfilesClient
\* getObjectId(sudoId, name): the blob cache key of a sudo's avatar; the
\* model has one blob claim per sudo, so the key is the sudo id.
getObjectId(sudoId) == sudoId
\* S3Client.upload returns the storage key it wrote to.
StorageKey(objectId) == <<"s3", objectId>>

\* createSecureString: the wire form of a string claim under the current key.
createSecureString(ks, value) ==
  LET keyId == getSymmetricKeyId(ks)
      encryptedData == encrypt(ks, keyId, value)
  IN IF keyId = "" THEN [ok |-> FALSE, error |-> "FatalError", claim |-> NoSecure]
     ELSE IF ~encryptedData.ok
     THEN [ok |-> FALSE, error |-> encryptedData.error, claim |-> NoSecure]
     ELSE [ok |-> TRUE, error |-> "",
           claim |-> Secure(keyId, Base64Encode(encryptedData.data))]

\* A processSecureClaim that decrypts with the current key id.
processSecureClaimCurrent(ks, claim) ==
  decrypt(ks, getSymmetricKeyId(ks), Base64Decode(claim.data))

\* processSecureClaim: the decrypted value of a string claim.
processSecureClaim(ks, claim) ==
  decrypt(ks, claim.keyId, Base64Decode(claim.data))

\* processListSudos: decrypts each item's claims and, when processS3Object,
\* materialises its blob claim: from the blob cache under CacheOnly (a miss
\* omits the claim), otherwise by download, decrypt and blobCache.setItem.
\* Items are processed in order; a failure throws and keeps what was written.
RECURSIVE processListSudos(_, _, _, _, _, _)
processListSudos(ks, objects, blobs, items, option, processS3Object) ==
  IF items = <<>>
  THEN [result |-> "ok", blobCache |-> blobs, sudos |-> <<>>, calls |-> {}]
  ELSE
    LET item == Head(items)
        claim == IF item.title = NoSecure
                 THEN [ok |-> TRUE, error |-> "", data |-> NoValue]
                 ELSE processSecureClaim(ks, item.title)
        withObject == processS3Object /\ item.avatar # NoSecure
        cacheId == getObjectId(item.id)
        fromCache == option = "cache-only"
        data == objects[item.avatar.data[2]]
        decryptedData == decrypt(ks, item.avatar.keyId, data)
    IN IF ~claim.ok
       THEN [result |-> claim.error, blobCache |-> blobs, sudos |-> <<>>, calls |-> {}]
       ELSE IF withObject /\ ~fromCache /\ data = NoCipher
       THEN [result |-> "S3DownloadError", blobCache |-> blobs, sudos |-> <<>>,
             calls |-> {"download"}]
       ELSE IF withObject /\ ~fromCache /\ ~decryptedData.ok
       THEN [result |-> decryptedData.error, blobCache |-> blobs, sudos |-> <<>>,
             calls |-> {"download"}]
       ELSE
         LET file == IF ~withObject THEN NoValue
                     ELSE IF fromCache THEN blobs[cacheId]
                     ELSE decryptedData.data
             blobs1 == IF withObject /\ ~fromCache
                       THEN [blobs EXCEPT ![cacheId] = decryptedData.data]
                       ELSE blobs
             rest == processListSudos(ks, objects, blobs1, Tail(items), option,
                                      processS3Object)
             mine == IF withObject /\ ~fromCache THEN {"download"} ELSE {}
         IN [result |-> rest.result, blobCache |-> rest.blobCache,
             sudos |-> IF rest.result = "ok"
                       THEN <<Sudo(item.id, item.version, claim.data, file)>> \o rest.sudos
                       ELSE <<>>,
             calls |-> mine \cup rest.calls]

\* A listSudos whose remote query never stores its result.
listSudosNeverStores(w, ks, fetchPolicy) ==
  LET remote == \/ fetchPolicy \in {"network-only", "no-cache"}
                \/ fetchPolicy = "cache-first" /\ ~w.cacheInit
      items == IF remote THEN ById(w.backend) ELSE getCachedQueryItems(w)
      done == processListSudos(ks, w.s3, w.blobCache, items, fetchPolicy, TRUE)
  IN Outcome([w EXCEPT !.blobCache = done.blobCache], done.result,
             (IF remote THEN {"query"} ELSE {}) \cup done.calls, done.sudos)

\* A listSudos that does not hand its fetch policy on to processListSudos.
listSudosPolicyDropped(w, ks, fetchPolicy) ==
  LET remote == \/ fetchPolicy \in {"network-only", "no-cache"}
                \/ fetchPolicy = "cache-first" /\ ~w.cacheInit
      items == IF remote THEN ById(w.backend) ELSE getCachedQueryItems(w)
      w1 == IF remote /\ fetchPolicy # "no-cache"
            THEN replaceCachedQueryItems(w, items) ELSE w
      done == processListSudos(ks, w1.s3, w1.blobCache, items, "cache-first", TRUE)
  IN Outcome([w1 EXCEPT !.blobCache = done.blobCache], done.result,
             (IF remote THEN {"query"} ELSE {}) \cup done.calls, done.sudos)

\* ApiClient.listSudos + listSudos: CacheOnly reads the cached result;
\* network-only queries the service and stores the result; no-cache queries
\* and stores nothing; cache-first queries only when nothing is cached.
listSudos(w, ks, fetchPolicy) ==
  LET remote == \/ fetchPolicy \in {"network-only", "no-cache"}
                \/ fetchPolicy = "cache-first" /\ ~w.cacheInit
      items == IF remote THEN ById(w.backend) ELSE getCachedQueryItems(w)
      w1 == IF remote /\ fetchPolicy # "no-cache"
            THEN replaceCachedQueryItems(w, items) ELSE w
      done == processListSudos(ks, w1.s3, w1.blobCache, items, fetchPolicy, TRUE)
  IN Outcome([w1 EXCEPT !.blobCache = done.blobCache], done.result,
             (IF remote THEN {"query"} ELSE {}) \cup done.calls, done.sudos)

\* A Blob Store that ignores removeItem.
removeItemIgnored(w, cacheId) == w

\* blobCache.removeItem(cacheId).
removeItem(w, cacheId) == [w EXCEPT !.blobCache[cacheId] = NoValue]

\* An updateSudo that encrypts and sends a string claim whose value is empty.
updateSudoEmptySent(w, ks, rv, sudo, avatarFirst, uploadOk) ==
  IF sudo.id = NoId THEN Outcome(w, "IllegalArgumentError", {}, <<>>)
  ELSE IF getSymmetricKeyId(ks) = "" THEN Outcome(w, "IllegalStateError", {}, <<>>)
  ELSE
    LET keyId == getSymmetricKeyId(ks)
        cacheId == getObjectId(sudo.id)
        hasFile == sudo.file # NoValue
        hasTitle == sudo.title # NoValue
        secureClaim == createSecureString(ks, sudo.title)
        encryptedData == encrypt(ks, keyId, sudo.file)
        \* blobCache.setItem(cacheId, data), then the try block
        written == [w EXCEPT !.blobCache[cacheId] = sudo.file]
        \* the catch block: blobCache.removeItem(cacheId), then rethrow
        rolledBack == removeItem(written, cacheId)
        uploaded == [written EXCEPT !.s3[cacheId] = encryptedData.data]
        titleFails == hasTitle /\ ~secureClaim.ok
        blobFails == hasFile /\ (~encryptedData.ok \/ ~uploadOk)
    IN IF titleFails /\ ~(hasFile /\ avatarFirst)
       THEN Outcome(w, secureClaim.error, {}, <<>>)
       ELSE IF blobFails /\ ~encryptedData.ok
       THEN Outcome(rolledBack, encryptedData.error, {}, <<>>)
       ELSE IF blobFails
       THEN Outcome(rolledBack, "S3UploadError", {"upload"}, <<>>)
       ELSE
         LET w1 == IF hasFile THEN uploaded ELSE w
             calls == IF hasFile THEN {"upload"} ELSE {}
             claims == IF hasTitle THEN secureClaim.claim ELSE NoSecure
             objects == IF hasFile THEN Secure(keyId, StorageKey(cacheId)) ELSE NoSecure
             updatedSudo == apiUpdateSudo(w1, rv, sudo.id, sudo.version, claims, objects)
             input == Request("updateSudo", sudo.id, sudo.version, claims, objects)
         IN Sending(<<input>>,
            IF updatedSudo.result # "ok"
            THEN Outcome(updatedSudo.w, updatedSudo.result,
                         calls \cup {"updateMutation"}, <<>>)
            ELSE Outcome(IF rv = "A" THEN queryCacheAdd(updatedSudo.w, updatedSudo.item)
                         ELSE updatedSudo.w,
                         "ok", calls \cup {"updateMutation"},
                         <<Sudo(updatedSudo.item.id, updatedSudo.item.version,
                                sudo.title, NoValue)>>))

\* updateSudo.  sudo = [id, version, title, file]; avatarFirst: the avatar
\* claim precedes the title claim in sudo.claims; uploadOk: S3 accepts the
\* upload.
updateSudo(w, ks, rv, sudo, avatarFirst, uploadOk) ==
  IF sudo.id = NoId THEN Outcome(w, "IllegalArgumentError", {}, <<>>)
  ELSE IF getSymmetricKeyId(ks) = "" THEN Outcome(w, "IllegalStateError", {}, <<>>)
  ELSE
    LET keyId == getSymmetricKeyId(ks)
        cacheId == getObjectId(sudo.id)
        hasFile == sudo.file # NoValue
        hasTitle == sudo.title \notin {NoValue, ""}
        secureClaim == createSecureString(ks, sudo.title)
        encryptedData == encrypt(ks, keyId, sudo.file)
        \* blobCache.setItem(cacheId, data), then the try block
        written == [w EXCEPT !.blobCache[cacheId] = sudo.file]
        \* the catch block: blobCache.removeItem(cacheId), then rethrow
        rolledBack == removeItem(written, cacheId)
        uploaded == [written EXCEPT !.s3[cacheId] = encryptedData.data]
        titleFails == hasTitle /\ ~secureClaim.ok
        blobFails == hasFile /\ (~encryptedData.ok \/ ~uploadOk)
    IN IF titleFails /\ ~(hasFile /\ avatarFirst)
       THEN Outcome(w, secureClaim.error, {}, <<>>)
       ELSE IF blobFails /\ ~encryptedData.ok
       THEN Outcome(rolledBack, encryptedData.error, {}, <<>>)
       ELSE IF blobFails
       THEN Outcome(rolledBack, "S3UploadError", {"upload"}, <<>>)
       ELSE
         LET w1 == IF hasFile THEN uploaded ELSE w
             calls == IF hasFile THEN {"upload"} ELSE {}
             claims == IF hasTitle THEN secureClaim.claim ELSE NoSecure
             objects == IF hasFile THEN Secure(keyId, StorageKey(cacheId)) ELSE NoSecure
             updatedSudo == apiUpdateSudo(w1, rv, sudo.id, sudo.version, claims, objects)
             input == Request("updateSudo", sudo.id, sudo.version, claims, objects)
         IN Sending(<<input>>,
            IF updatedSudo.result # "ok"
            THEN Outcome(updatedSudo.w, updatedSudo.result,
                         calls \cup {"updateMutation"}, <<>>)
            ELSE Outcome(IF rv = "A" THEN queryCacheAdd(updatedSudo.w, updatedSudo.item)
                         ELSE updatedSudo.w,
                         "ok", calls \cup {"updateMutation"},
                         <<Sudo(updatedSudo.item.id, updatedSudo.item.version,
                                sudo.title, NoValue)>>))

\* The caller's Sudo object after createSudo(sudo): the id and version of the
\* created record are assigned to it as soon as the create mutation has
\* answered, before updateSudo is called; a successful updateSudo assigns
\* the updated version.
createSudoAssigns(w, ks, rv, sudo, avatarFirst, uploadOk) ==
  IF getSymmetricKeyId(ks) = "" THEN sudo
  ELSE
    LET createdSudo == apiCreateSudo(w, rv, NoSecure, NoSecure)
        assigned == [sudo EXCEPT !.id = createdSudo.item.id,
                                 !.version = createdSudo.item.version]
        updated == updateSudo(createdSudo.w, ks, rv, assigned, avatarFirst, uploadOk)
    IN IF updated.result = "ok"
       THEN [assigned EXCEPT !.version = updated.returned[1].version]
       ELSE assigned

\* A createSudo that sends the title in the create mutation and no update.
createSudoInOneMutation(w, ks, rv, sudo, avatarFirst, uploadOk) ==
  IF getSymmetricKeyId(ks) = "" THEN Outcome(w, "IllegalStateError", {}, <<>>)
  ELSE
    LET claims == IF sudo.title \in {NoValue, ""} THEN NoSecure
                  ELSE createSecureString(ks, sudo.title).claim
        input == Request("createSudo", NoId, 0, claims, NoSecure)
        createdSudo == apiCreateSudo(w, rv, input.claims, input.objects)
    IN Sending(<<input>>,
               Outcome(createdSudo.w, "ok", {"createMutation"},
                       <<Sudo(createdSudo.item.id, createdSudo.item.version,
                              sudo.title, NoValue)>>))

\* A createSudo that does not look for the current key id before its create
\* mutation.
createSudoUnkeyed(w, ks, rv, sudo, avatarFirst, uploadOk) ==
  LET input == Request("createSudo", NoId, 0, NoSecure, NoSecure)
      createdSudo == apiCreateSudo(w, rv, input.claims, input.objects)
      updated == updateSudo(createdSudo.w, ks, rv,
                            [sudo EXCEPT !.id = createdSudo.item.id,
                                         !.version = createdSudo.item.version],
                            avatarFirst, uploadOk)
  IN Sending(<<input>> \o updated.sent,
             Outcome(updated.w, updated.result,
                     {"createMutation"} \cup updated.calls, updated.returned))

\* createSudo: a bare create mutation, then updateSudo on the identified sudo.
createSudo(w, ks, rv, sudo, avatarFirst, uploadOk) ==
  IF getSymmetricKeyId(ks) = "" THEN Outcome(w, "IllegalStateError", {}, <<>>)
  ELSE
    LET input == Request("createSudo", NoId, 0, NoSecure, NoSecure)
        createdSudo == apiCreateSudo(w, rv, input.claims, input.objects)
        updated == updateSudo(createdSudo.w, ks, rv,
                              [sudo EXCEPT !.id = createdSudo.item.id,
                                           !.version = createdSudo.item.version],
                              avatarFirst, uploadOk)
    IN Sending(<<input>> \o updated.sent,
               Outcome(updated.w, updated.result,
                       {"createMutation"} \cup updated.calls, updated.returned))

\* A deleteSudo that sends the delete mutation without looking the record up
\* in the cached list.
deleteSudoUnlisted(w, ks, rv, sudo, deleteOk) ==
  IF sudo.id = NoId THEN Outcome(w, "IllegalArgumentError", {}, <<>>)
  ELSE LET deleted == apiDeleteSudo(w, rv, sudo.id, sudo.version)
       IN Outcome(deleted.w, deleted.result, {"deleteMutation"}, <<>>)

\* deleteSudo with deleteSecureS3Object and getSudo.  deleteOk: S3 accepts
\* the object deletion (revision A; revision B never asks for it).
deleteSudo(w, ks, rv, sudo, deleteOk) ==
  IF sudo.id = NoId THEN Outcome(w, "IllegalArgumentError", {}, <<>>)
  ELSE
    LET listed == listSudos(w, ks, "cache-only")
        cacheId == getObjectId(sudo.id)
    IN IF listed.result # "ok" THEN Outcome(w, listed.result, {}, <<>>)
       ELSE IF ~HasId(listed.returned, sudo.id)
       THEN Outcome(w, "SudoNotFoundError", {}, <<>>)
       ELSE
         LET cached == FindFirst(listed.returned, sudo.id)
             \* a BlobClaimValue claim is there iff the blob cache had the entry
             cacheEntry == cached.file # NoValue
             removed == removeItem(w, cacheId)
             w1 == IF ~cacheEntry THEN w
                   ELSE IF rv = "A" THEN [removed EXCEPT !.s3[cacheId] = NoCipher]
                   ELSE removed
             calls == IF cacheEntry /\ rv = "A" THEN {"s3delete"} ELSE {}
             deleted == apiDeleteSudo(w1, rv, sudo.id, sudo.version)
         IN IF cacheEntry /\ rv = "A" /\ ~deleteOk
            THEN Outcome(w, "S3DeleteError", calls, <<>>)
            ELSE Outcome(deleted.w, deleted.result, calls \cup {"deleteMutation"}, <<>>)


\* ------------------------------------------------------ SubscriptionManager
Listeners == {"l1", "l2"}
\* A manager: subscribers in insertion order (Object.keys order), whether a
\* watcher is held, and the subscription handle: "none" (undefined), "open",
\* or "closed" (a handle whose transport subscription has ended).
IdleManager == [subscribers |-> <<>>, watcher |-> FALSE, subscription |-> "none"]
\* One entry of the log of what a handler did, in order.
Note(kind, listener, ct, arg, sid) ==
  [kind |-> kind, listener |-> listener, ct |-> ct, arg |-> arg, sid |-> sid]

\* replaceSubscriber: subscribers[id] = subscriber.
replaceSubscriber(m, id) ==
  IF id \in Range(m.subscribers) THEN m
  ELSE [m EXCEPT !.subscribers = Append(@, id)]

\* subscription?.unsubscribe(): closes the transport subscription the handle
\* stands for, if it is still open.  n: transport subscriptions open.
unsubscribeHandle(m, n) == IF m.subscription = "open" THEN n - 1 ELSE n

\* A removeAllSubscribers that forgets its handle without calling
\* unsubscribe on it.
removeAllSubscribersForgets(m, n) == [m |-> IdleManager, open |-> n]

\* removeAllSubscribers.
removeAllSubscribers(m, n) ==
  [m |-> IdleManager, open |-> unsubscribeHandle(m, n)]

\* A removeSubscriber that drops its watcher and handle without calling
\* unsubscribe on the handle.
removeSubscriberLeak(m, n, id) ==
  LET NotId(x) == x # id
      left == Filter(m.subscribers, NotId)
  IN IF Len(left) > 0
     THEN [m |-> [m EXCEPT !.subscribers = left], open |-> n]
     ELSE [m |-> IdleManager, open |-> n]

\* A removeSubscriber that leaves the subscriber in the map.
removeSubscriberKept(m, n, id) ==
  IF Len(m.subscribers) > 0 THEN [m |-> m, open |-> n]
  ELSE [m |-> IdleManager, open |-> unsubscribeHandle(m, n)]

\* removeSubscriber(id): tears the transport subscription down when no
\* subscriber is left.
removeSubscriber(m, n, id) ==
  LET NotId(x) == x # id
      left == Filter(m.subscribers, NotId)
  IN IF Len(left) > 0
     THEN [m |-> [m EXCEPT !.subscribers = left], open |-> n]
     ELSE [m |-> IdleManager, open |-> unsubscribeHandle(m, n)]

\* A sudoChanged that calls the first subscriber only.
sudoChangedFirstOnly(m, ct, sudo) ==
  IF m.subscribers = <<>> THEN <<>>
  ELSE <<Note("sudoChanged", m.subscribers[1], ct, sudo.title, sudo.id)>>

\* sudoChanged(changeType, sudo): every subscriber is called once, in key
\* order, with the change type and the decoded sudo (its title and id).
sudoChanged(m, ct, sudo) ==
  [n \in DOMAIN m.subscribers |->
     Note("sudoChanged", m.subscribers[n], ct, sudo.title, sudo.id)]

\* A connectionStatusChanged that notifies and clears nothing.
connectionStatusChangedKeeps(m, n, ct, state) ==
  [m |-> m, open |-> n,
   log |-> [k \in DOMAIN m.subscribers |->
              Note("connectionStatusChanged", m.subscribers[k], ct, state, NoId)]]

\* A connectionStatusChanged that notifies the subscribers before it clears
\* the manager.
connectionStatusChangedNotifiesFirst(m, n, ct, state) ==
  LET cleared == IF state = "Disconnected" THEN removeAllSubscribers(m, n)
                 ELSE [m |-> m, open |-> n]
      notes == [k \in DOMAIN m.subscribers |->
                  Note("connectionStatusChanged", m.subscribers[k], ct, state, NoId)]
  IN [m |-> cleared.m, open |-> cleared.open,
      log |-> notes \o (IF state = "Disconnected"
                        THEN <<Note("cleared", "", ct, state, NoId)>> ELSE <<>>)]

\* connectionStatusChanged: the subscribers to notify are taken first; on
\* Disconnected the manager is cleared, and then they are notified.
connectionStatusChanged(m, n, ct, state) ==
  LET subscribersToNotify == m.subscribers
      cleared == IF state = "Disconnected" THEN removeAllSubscribers(m, n)
                 ELSE [m |-> m, open |-> n]
      notes == [k \in DOMAIN subscribersToNotify |->
                  Note("connectionStatusChanged", subscribersToNotify[k], ct, state, NoId)]
  IN [m |-> cleared.m, open |-> cleared.open,
      log |-> (IF state = "Disconnected" THEN <<Note("cleared", "", ct, state, NoId)>>
               ELSE <<>>) \o notes]

\* A subscribe that opens a transport subscription whether or not the
\* manager already holds a watcher.
subscribeOpensAgain(m, n, id, ct, failsAtOnce) ==
  LET m1 == replaceSubscriber(m, id)
      m2 == [m1 EXCEPT !.watcher = TRUE, !.subscription = "open"]
  IN connectionStatusChanged(m2, n + 1, ct, "Connected")

\* subscribe(id, changeType, subscriber) for one manager.  failsAtOnce: the
\* transport reports an error from inside watcher.subscribe(), before the
\* handle is stored.
subscribe(m, n, id, ct, failsAtOnce) ==
  LET m1 == replaceSubscriber(m, id)
  IN IF m1.watcher THEN [m |-> m1, open |-> n, log |-> <<>>]
     ELSE IF ~failsAtOnce
     THEN LET m2 == [m1 EXCEPT !.watcher = TRUE, !.subscription = "open"]
              connected == connectionStatusChanged(m2, n + 1, ct, "Connected")
          IN connected
     ELSE LET m2 == [m1 EXCEPT !.watcher = TRUE]
              \* the error callback runs while executeXxxSubscriptionWatcher
              \* is still inside watcher.subscribe()
              failed == connectionStatusChanged(m2, n, ct, "Disconnected")
              m3 == [failed.m EXCEPT !.subscription = "closed"]
              connected == connectionStatusChanged(m3, failed.open, ct, "Connected")
          IN [m |-> connected.m, open |-> connected.open,
              log |-> failed.log \o connected.log]

\* The complete / error callbacks of the watcher's observer: the transport
\* subscription has ended, the handle is closed, subscribers are told.
terminated(m, n, ct) ==
  LET ended == [m EXCEPT !.subscription = IF @ = "open" THEN "closed" ELSE @]
  IN connectionStatusChanged(ended, n - 1, ct, "Disconnected")

\* The next callbacks.  data: the pushed GraphQL Sudo.  Each decodes the item
\* (processListSudos without S3 objects), patches the cached list and calls
\* sudoChanged; a decode failure rejects and changes nothing.
onCreateSudoNext(w, ks, m, data) ==
  LET sudos == processListSudos(ks, w.s3, w.blobCache, <<data>>, "cache-only", FALSE)
      cachedItems == getCachedQueryItems(w)
  IN IF sudos.result # "ok" THEN [w |-> w, result |-> sudos.result, log |-> <<>>]
     ELSE [w |-> replaceCachedQueryItems(w, Append(cachedItems, data)),
           result |-> "ok",
           log |-> <<Note("patched", "", "Create", "", data.id)>>
                   \o sudoChanged(m, "Create", sudos.sudos[1])]

\* An onUpdateSudo next callback that calls the subscribers before it
\* patches the cached list.
onUpdateSudoNextNotifiesFirst(w, ks, m, data) ==
  LET sudos == processListSudos(ks, w.s3, w.blobCache, <<data>>, "cache-only", FALSE)
      Other(element) == element.id # data.id
      cachedItems == Filter(getCachedQueryItems(w), Other)
  IN IF sudos.result # "ok" THEN [w |-> w, result |-> sudos.result, log |-> <<>>]
     ELSE [w |-> replaceCachedQueryItems(w, Append(cachedItems, data)),
           result |-> "ok",
           log |-> sudoChanged(m, "Update", sudos.sudos[1])
                   \o <<Note("patched", "", "Update", "", data.id)>>]

onUpdateSudoNext(w, ks, m, data) ==
  LET sudos == processListSudos(ks, w.s3, w.blobCache, <<data>>, "cache-only", FALSE)
      Other(element) == element.id # data.id
      cachedItems == Filter(getCachedQueryItems(w), Other)
  IN IF sudos.result # "ok" THEN [w |-> w, result |-> sudos.result, log |-> <<>>]
     ELSE [w |-> replaceCachedQueryItems(w, Append(cachedItems, data)),
           result |-> "ok",
           log |-> <<Note("patched", "", "Update", "", data.id)>>
                   \o sudoChanged(m, "Update", sudos.sudos[1])]

onDeleteSudoNext(w, ks, m, data) ==
  LET sudos == processListSudos(ks, w.s3, w.blobCache, <<data>>, "cache-only", FALSE)
      Other(element) == element.id # data.id
      cachedItems == getCachedQueryItems(w)
  IN IF sudos.result # "ok" THEN [w |-> w, result |-> sudos.result, log |-> <<>>]
     ELSE [w |-> replaceCachedQueryItems(w, Filter(cachedItems, Other)),
           result |-> "ok",
           log |-> <<Note("patched", "", "Delete", "", data.id)>>
                   \o sudoChanged(m, "Delete", sudos.sudos[1])]

\* ------------------------------------------------------------ the machine
\* What the latest call or callback was and what could be seen of it: what it
\* answered, which remote calls it issued, what it returned and what it told
\* the subscribers, in order.
Last(op, result, calls, returned, log) ==
  [op |-> op, result |-> result, calls |-> calls, returned |-> returned, log |-> log]
\* The same for a call or callback of the subscription interface.
LastSub(op, result, log) == Last(op, result, {}, <<>>, log)
NoLast == Last("none", "ok", {}, <<>>, <<>>)

worldVars == <<backend, tomb, s3, cacheInit, cacheList, blobCache>>
subVars == <<subs, open, told>>

\* The subscribers a log tells Connected for a change type.
ToldConnected(log, ct) ==
  {log[k].listener : k \in {n \in DOMAIN log :
      log[n] = Note("connectionStatusChanged", log[n].listener, ct, "Connected", NoId)}}
\* What the subscribers of a change type have heard after a call: a
\* subscriber's own subscribe starts it afresh, a Connected notification in
\* the call's log counts, and whoever is no longer registered is forgotten.
Hears(ct, m, ids, log) ==
  ((told[ct] \ ids) \cup ToldConnected(log, ct)) \cap Range(m.subscribers)

\* The state a world record describes becomes the next state.
Becomes(w) ==
  /\ backend' = w.backend
  /\ tomb' = w.tomb
  /\ s3' = w.s3
  /\ cacheInit' = w.cacheInit
  /\ cacheList' = w.cacheList
  /\ blobCache' = w.blobCache

\* The model's bounds on what a step may produce.
Within(w) ==
  /\ \A i \in w.backend : i.id <= MaxSudos /\ i.version <= MaxVersion
  /\ Len(w.cacheList) <= MaxCacheLen

\* The service publishes each successful mutation to the subscriptions of
\* its change type: onCreateSudo carries the record as created, onUpdateSudo
\* the record as updated, onDeleteSudo the record deleted.  b, a: the world
\* before and after a call.
ServiceEvents(b, a) ==
  {[ct |-> "Create", data |-> GQLSudo(i.id, 1, NoSecure, NoSecure)] :
     i \in {j \in a.backend : j.id \notin Ids(b.backend)}}
  \cup {[ct |-> "Update", data |-> i] :
          i \in {j \in a.backend : j.version > 1 /\ j \notin b.backend}}
  \cup {[ct |-> "Delete", data |-> i] : i \in a.tomb \ b.tomb}

\* A call's events travel to the transport subscriptions open at the time.
Publishes(w) ==
  /\ pending' = pending \cup {e \in ServiceEvents(World, w) : open[e.ct] > 0}
  /\ Cardinality(pending') <= MaxPending

\* After construction: nothing stored anywhere, no subscriber.
InitClient ==
  /\ rev \in Revisions
  /\ keyStore = [n \in KeyNames |-> NoValue]
  /\ pushed = [latest |-> NoValue, bytes |-> [n \in KeyNames |-> NoValue]]
  /\ backend = {}
  /\ tomb = {}
  /\ s3 = [i \in SudoIds |-> NoCipher]
  /\ cacheInit = FALSE
  /\ cacheList = <<>>
  /\ blobCache = [i \in SudoIds |-> NoValue]
  /\ subs = [ct \in ChangeTypes |-> IdleManager]
  /\ open = [ct \in ChangeTypes |-> 0]
  /\ told = [ct \in ChangeTypes |-> {}]
  /\ pending = {}
  /\ inflight = {}
  /\ last = NoLast

Init == InitClient /\ signedIn = TRUE

\* Revision A's KeyManager.insertKey and setSymmetricKeyId, called by the
\* application.
InsertKey(keyId, key) ==
  /\ rev = "A"
  /\ keyStore' = [keyStore EXCEPT ![keyId] = key]
  /\ last' = Last("insertKey", "ok", {}, <<>>, <<>>)
  /\ UNCHANGED <<rev, inflight, pushed, signedIn, worldVars, subVars, pending>>

SetSymmetricKeyId(keyId) ==
  /\ rev = "A"
  /\ keyStore' = [keyStore EXCEPT ![KEY_NAME_SYMMETRIC_KEY_ID] = keyId]
  /\ last' = Last("setSymmetricKeyId", "ok", {}, <<>>, <<>>)
  /\ UNCHANGED <<rev, inflight, pushed, signedIn, worldVars, subVars, pending>>

\* Revision B's pushSymmetricKey: stores the key, then makes it current.
PushSymmetricKey(keyId, key) ==
  /\ rev = "B"
  /\ keyStore' = [keyStore EXCEPT ![keyId] = key,
                                  ![KEY_NAME_SYMMETRIC_KEY_ID] = keyId]
  /\ pushed' = [latest |-> keyId, bytes |-> [pushed.bytes EXCEPT ![keyId] = key]]
  /\ last' = Last("pushSymmetricKey", "ok", {}, <<>>, <<>>)
  /\ UNCHANGED <<rev, inflight, signedIn, worldVars, subVars, pending>>

\* insertKey with either kind of value, deleteKey, reset and getKey, called
\* by the application on revision A's key manager.
InsertKeyAs(keyId, key, backing) ==
  /\ rev = "A"
  /\ keyStore' = insertKey(keyStore, keyId, key, backing)
  /\ last' = Last("insertKey", "ok", {}, <<>>, <<>>)
  /\ UNCHANGED <<rev, inflight, pushed, signedIn, worldVars, subVars, pending>>

DeleteKey(keyId) ==
  /\ rev = "A"
  /\ keyStore' = deleteKey(keyStore, keyId)
  /\ last' = Last("deleteKey", "ok", {}, <<>>, <<>>)
  /\ UNCHANGED <<rev, inflight, pushed, signedIn, worldVars, subVars, pending>>

Reset ==
  /\ rev = "A"
  /\ keyStore' = reset(keyStore)
  /\ last' = Last("reset", "ok", {}, <<>>, <<>>)
  /\ UNCHANGED <<rev, inflight, pushed, signedIn, worldVars, subVars, pending>>

GetKey(keyId) ==
  /\ last' = Last("getKey", "ok", {}, <<getKey(keyStore, keyId)>>, <<>>)
  /\ UNCHANGED <<rev, inflight, keyStore, pushed, signedIn, worldVars, subVars, pending>>

\* The key store after encrypt or decrypt has worked with the key under
\* keyId: getSymmetricKey hands out the stored entry itself and the call
\* ends with new Uint8Array(key).fill(0).  A call that throws (no key, or a
\* ciphertext that does not decrypt) does not reach the wipe.
keyWiped(ks, keyId, ok) ==
  IF ok THEN [ks EXCEPT ![keyId] = wiped(@, backingOf(@))] ELSE ks

\* The security provider's encrypt and decrypt, called on their own.
Encrypt(keyId, data) ==
  LET out == encrypt(keyStore, keyId, data)
  IN /\ last' = Last("encrypt", IF out.ok THEN "ok" ELSE out.error, {},
                     <<out.data>>, <<>>)
     /\ keyStore' = keyWiped(keyStore, keyId, out.ok)
     /\ UNCHANGED <<rev, inflight, pushed, signedIn, worldVars, subVars, pending>>

Decrypt(keyId, cipher) ==
  LET out == decrypt(keyStore, keyId, cipher)
  IN /\ last' = Last("decrypt", IF out.ok THEN "ok" ELSE out.error, {},
                     <<out.data>>, <<>>)
     /\ keyStore' = keyWiped(keyStore, keyId, out.ok)
     /\ UNCHANGED <<rev, inflight, pushed, signedIn, worldVars, subVars, pending>>

CreateSudo(title, file, avatarFirst, uploadOk) ==
  LET out == createSudo(World, keyStore, rev, Sudo(NoId, 0, title, file),
                        avatarFirst, uploadOk)
  IN /\ Cardinality(Ids(backend) \cup Ids(tomb)) < MaxSudos
     /\ Within(out.w)
     /\ Becomes(out.w)
     /\ Publishes(out.w)
     /\ last' = Last("createSudo", out.result, out.calls, out.returned, <<>>)
     /\ UNCHANGED <<rev, inflight, pushed, keyStore, signedIn, subVars>>

UpdateSudo(id, version, title, file, avatarFirst, uploadOk) ==
  LET out == updateSudo(World, keyStore, rev, Sudo(id, version, title, file),
                        avatarFirst, uploadOk)
  IN /\ Within(out.w)
     /\ Becomes(out.w)
     /\ Publishes(out.w)
     /\ last' = Last("updateSudo", out.result, out.calls, out.returned, <<>>)
     /\ UNCHANGED <<rev, inflight, pushed, keyStore, signedIn, subVars>>

DeleteSudo(id, version, deleteOk) ==
  LET out == deleteSudo(World, keyStore, rev, Sudo(id, version, NoValue, NoValue),
                        deleteOk)
  IN /\ Becomes(out.w)
     /\ Publishes(out.w)
     /\ last' = Last("deleteSudo", out.result, out.calls, out.returned, <<>>)
     /\ UNCHANGED <<rev, inflight, pushed, keyStore, signedIn, subVars>>

ListSudos(fetchPolicy) ==
  LET out == listSudos(World, keyStore, fetchPolicy)
  IN /\ Within(out.w)
     /\ Becomes(out.w)
     /\ last' = Last("listSudos", out.result, out.calls, out.returned, <<>>)
     /\ UNCHANGED <<rev, inflight, pushed, keyStore, signedIn, subVars, pending>>

\* A pushed event reaches the next callback of its change type's watcher.
OnCreateSudo(e) ==
  LET out == onCreateSudoNext(World, keyStore, subs["Create"], e.data)
  IN /\ e.ct = "Create"
     /\ open["Create"] > 0
     /\ Within(out.w)
     /\ Becomes(out.w)
     /\ pending' = pending \ {e}
     /\ last' = Last("onCreateSudo", out.result, {}, <<>>, out.log)
     /\ UNCHANGED <<rev, inflight, pushed, keyStore, signedIn, subVars>>

OnUpdateSudo(e) ==
  LET out == onUpdateSudoNext(World, keyStore, subs["Update"], e.data)
  IN /\ e.ct = "Update"
     /\ open["Update"] > 0
     /\ Within(out.w)
     /\ Becomes(out.w)
     /\ pending' = pending \ {e}
     /\ last' = Last("onUpdateSudo", out.result, {}, <<>>, out.log)
     /\ UNCHANGED <<rev, inflight, pushed, keyStore, signedIn, subVars>>

OnDeleteSudo(e) ==
  LET out == onDeleteSudoNext(World, keyStore, subs["Delete"], e.data)
  IN /\ e.ct = "Delete"
     /\ open["Delete"] > 0
     /\ Becomes(out.w)
     /\ pending' = pending \ {e}
     /\ last' = Last("onDeleteSudo", out.result, {}, <<>>, out.log)
     /\ UNCHANGED <<rev, inflight, pushed, keyStore, signedIn, subVars>>

\* Events in flight to a transport subscription that closes are dropped.
Drops == pending' = {e \in pending : open'[e.ct] > 0}

\* The user signs in or out (the user client is outside this client).
SignIn ==
  /\ ~signedIn
  /\ signedIn' = TRUE
  /\ last' = LastSub("signIn", "ok", <<>>)
  /\ UNCHANGED <<rev, inflight, pushed, keyStore, worldVars, subVars, pending>>

SignOut ==
  /\ signedIn
  /\ signedIn' = FALSE
  /\ last' = LastSub("signOut", "ok", <<>>)
  /\ UNCHANGED <<rev, inflight, pushed, keyStore, worldVars, subVars, pending>>

\* A subscribe that does not ask who is signed in.
SubscribeUnchecked(id, ct, failsAtOnce) ==
  LET out == subscribe(subs[ct], open[ct], id, ct, failsAtOnce)
  IN /\ subs' = [subs EXCEPT ![ct] = out.m]
     /\ open' = [open EXCEPT ![ct] = out.open]
     /\ told' = [told EXCEPT ![ct] = Hears(ct, out.m, {id}, out.log)]
     /\ last' = LastSub("subscribe", "ok", out.log)
     /\ UNCHANGED <<rev, inflight, pushed, keyStore, signedIn, worldVars, pending>>

\* subscribe(id, changeType, subscriber).
Subscribe(id, ct, failsAtOnce) ==
  LET out == subscribe(subs[ct], open[ct], id, ct, failsAtOnce)
  IN /\ IF ~signedIn
        THEN /\ last' = LastSub("subscribe", "NotSignedInError", <<>>)
             /\ UNCHANGED subVars
        ELSE /\ subs' = [subs EXCEPT ![ct] = out.m]
             /\ open' = [open EXCEPT ![ct] = out.open]
             /\ told' = [told EXCEPT ![ct] = Hears(ct, out.m, {id}, out.log)]
             /\ last' = LastSub("subscribe", "ok", out.log)
     /\ UNCHANGED <<rev, inflight, pushed, keyStore, signedIn, worldVars, pending>>

\* subscribeAll(id, subscriber): subscribe for Create, Update and Delete, in
\* that order.
SubscribeAll(id) ==
  LET create == subscribe(subs["Create"], open["Create"], id, "Create", FALSE)
      update == subscribe(subs["Update"], open["Update"], id, "Update", FALSE)
      delete == subscribe(subs["Delete"], open["Delete"], id, "Delete", FALSE)
  IN /\ IF ~signedIn
        THEN /\ last' = LastSub("subscribeAll", "NotSignedInError", <<>>)
             /\ UNCHANGED subVars
        ELSE /\ subs' = [Create |-> create.m, Update |-> update.m, Delete |-> delete.m]
             /\ open' = [Create |-> create.open, Update |-> update.open,
                         Delete |-> delete.open]
             /\ told' = [Create |-> Hears("Create", create.m, {id}, create.log),
                         Update |-> Hears("Update", update.m, {id}, update.log),
                         Delete |-> Hears("Delete", delete.m, {id}, delete.log)]
             /\ last' = LastSub("subscribeAll", "ok",
                                create.log \o update.log \o delete.log)
     /\ UNCHANGED <<rev, inflight, pushed, keyStore, signedIn, worldVars, pending>>

\* unsubscribe(id, changeType).
Unsubscribe(id, ct) ==
  LET out == removeSubscriber(subs[ct], open[ct], id)
  IN /\ subs' = [subs EXCEPT ![ct] = out.m]
     /\ open' = [open EXCEPT ![ct] = out.open]
     /\ told' = [told EXCEPT ![ct] = Hears(ct, out.m, {}, <<>>)]
     /\ last' = LastSub("unsubscribe", "ok", <<>>)
     /\ Drops
     /\ UNCHANGED <<rev, inflight, pushed, keyStore, signedIn, worldVars>>

\* unsubscribeAll().
UnsubscribeAll ==
  /\ subs' = [ct \in ChangeTypes |-> removeAllSubscribers(subs[ct], open[ct]).m]
  /\ open' = [ct \in ChangeTypes |-> removeAllSubscribers(subs[ct], open[ct]).open]
  /\ told' = [ct \in ChangeTypes |->
               Hears(ct, removeAllSubscribers(subs[ct], open[ct]).m, {}, <<>>)]
  /\ last' = Last("unsubscribeAll", "ok",
                  {ct \in ChangeTypes : subs[ct].subscription = "open"}, <<>>, <<>>)
  /\ Drops
  /\ UNCHANGED <<rev, inflight, pushed, keyStore, signedIn, worldVars>>

\* The transport ends a change type's subscription: the observer's complete
\* callback, or its error callback.
TransportComplete(ct) ==
  LET out == terminated(subs[ct], open[ct], ct)
  IN /\ open[ct] > 0
     /\ subs' = [subs EXCEPT ![ct] = out.m]
     /\ open' = [open EXCEPT ![ct] = out.open]
     /\ told' = [told EXCEPT ![ct] = Hears(ct, out.m, {}, out.log)]
     /\ last' = LastSub("complete", "ok", out.log)
     /\ Drops
     /\ UNCHANGED <<rev, inflight, pushed, keyStore, signedIn, worldVars>>

TransportError(ct) ==
  LET out == terminated(subs[ct], open[ct], ct)
  IN /\ open[ct] > 0
     /\ subs' = [subs EXCEPT ![ct] = out.m]
     /\ open' = [open EXCEPT ![ct] = out.open]
     /\ told' = [told EXCEPT ![ct] = Hears(ct, out.m, {}, out.log)]
     /\ last' = LastSub("error", "ok", out.log)
     /\ Drops
     /\ UNCHANGED <<rev, inflight, pushed, keyStore, signedIn, worldVars>>

\* ------------------------------------------------------- the specifications
\* Records, string claims and the cached list; no call carries a file and
\* nobody subscribes.
Next ==
  \/ \E k \in KeyIds, m \in KeyMaterial : InsertKey(k, m)
  \/ \E k \in KeyIds : SetSymmetricKeyId(k)
  \/ \E k \in KeyIds, m \in KeyMaterial : PushSymmetricKey(k, m)
  \/ \E t \in TitleInputs : CreateSudo(t, NoValue, FALSE, TRUE)
  \/ \E i \in SudoIds \cup {NoId}, v \in 1..MaxVersion, t \in TitleInputs :
       UpdateSudo(i, v, t, NoValue, FALSE, TRUE)
  \/ \E i \in SudoIds \cup {NoId}, v \in 1..MaxVersion : DeleteSudo(i, v, TRUE)
  \/ \E p \in FetchOption : ListSudos(p)

Spec == Init /\ [][Next]_vars

\* Records with an avatar file: the blob cache and object storage.  The
\* order of claims and the fate of the upload matter only to a call that
\* carries a file.
Sensible(file, avatarFirst, uploadOk) ==
  file = NoValue => (~avatarFirst /\ uploadOk)

NextBlob ==
  \/ \E k \in KeyIds, m \in KeyMaterial : InsertKey(k, m)
  \/ \E k \in KeyIds : SetSymmetricKeyId(k)
  \/ \E k \in KeyIds, m \in KeyMaterial : PushSymmetricKey(k, m)
  \/ \E t \in BlobTitleInputs, f \in FileInputs, a \in BOOLEAN, u \in BOOLEAN :
       /\ Cardinality(Ids(backend) \cup Ids(tomb)) < MaxBlobSudos
       /\ Sensible(f, a, u)
       /\ CreateSudo(t, f, a, u)
  \/ \E i \in BlobSudoIds \cup {NoId}, v \in 1..MaxVersion, t \in BlobTitleInputs,
        f \in FileInputs, a \in BOOLEAN, u \in BOOLEAN :
       Sensible(f, a, u) /\ UpdateSudo(i, v, t, f, a, u)
  \/ \E i \in BlobSudoIds \cup {NoId}, v \in 1..MaxVersion, d \in BOOLEAN :
       DeleteSudo(i, v, d)
  \/ \E p \in FetchOption : ListSudos(p)

SpecBlob == Init /\ [][NextBlob]_vars

\* Subscribers and transport subscriptions: two subscribers, every change
\* type, sign-in and sign-out, and the transport ending a subscription or
\* failing one while it is being opened.
NextSub ==
  \/ SignIn
  \/ SignOut
  \/ \E l \in Listeners, ct \in ChangeTypes, e \in BOOLEAN : Subscribe(l, ct, e)
  \/ \E l \in Listeners : SubscribeAll(l)
  \/ \E l \in Listeners, ct \in ChangeTypes : Unsubscribe(l, ct)
  \/ UnsubscribeAll
  \/ \E ct \in ChangeTypes : TransportComplete(ct)
  \/ \E ct \in ChangeTypes : TransportError(ct)

InitSub == InitClient /\ signedIn = FALSE

SpecSub == InitSub /\ [][NextSub]_vars

\* Pushed events: one record is created, listed and deleted while
\* subscribers come and go, and the service's events arrive in any order.
NextEvents ==
  \/ \E k \in KeyIds, m \in KeyMaterial : InsertKey(k, m)
  \/ \E k \in KeyIds : SetSymmetricKeyId(k)
  \/ \E k \in KeyIds, m \in KeyMaterial : PushSymmetricKey(k, m)
  \/ /\ Cardinality(Ids(backend) \cup Ids(tomb)) < MaxBlobSudos
     /\ CreateSudo("a", NoValue, FALSE, TRUE)
  \/ \E i \in BlobSudoIds : DeleteSudo(i, 2, TRUE)
  \/ ListSudos("network-only")
  \/ \E ct \in ChangeTypes : Subscribe("l1", ct, FALSE)
  \/ SubscribeAll("l2")
  \/ UnsubscribeAll
  \/ \E e \in pending : OnCreateSudo(e)
  \/ \E e \in pending : OnUpdateSudo(e)
  \/ \E e \in pending : OnDeleteSudo(e)

SpecEvents == Init /\ [][NextEvents]_vars

\* Unsubscribing while events arrive: one record is created, two
\* subscribers come and go per change type, and the service's create and
\* update events arrive in any order.
UnsubTypes == {"Create", "Update"}
NextUnsub ==
  \/ \E k \in KeyIds, m \in KeyMaterial : PushSymmetricKey(k, m)
  \/ /\ Cardinality(Ids(backend) \cup Ids(tomb)) < MaxBlobSudos
     /\ CreateSudo("a", NoValue, FALSE, TRUE)
  \/ \E l \in Listeners, ct \in UnsubTypes : Subscribe(l, ct, FALSE)
  \/ \E l \in Listeners, ct \in UnsubTypes : Unsubscribe(l, ct)
  \/ \E e \in pending : OnCreateSudo(e)
  \/ \E e \in pending : OnUpdateSudo(e)

SpecUnsub == Init /\ [][NextUnsub]_vars

\* Key rotation: one record with title and avatar is written and listed
\* while the application stores a second key and makes it current.
NextKeys ==
  \/ \E k \in RotatedKeyIds : InsertKey(k, KeyBytes(k))
  \/ \E k \in RotatedKeyIds : SetSymmetricKeyId(k)
  \/ \E k \in RotatedKeyIds : PushSymmetricKey(k, KeyBytes(k))
  \/ \E f \in FileInputs :
       /\ Cardinality(Ids(backend) \cup Ids(tomb)) < MaxBlobSudos
       /\ CreateSudo("a", f, FALSE, TRUE)
  \/ \E i \in BlobSudoIds, v \in 1..MaxVersion, t \in BlobTitleInputs, f \in FileInputs :
       UpdateSudo(i, v, t, f, FALSE, TRUE)
  \/ \E p \in {"network-only", "cache-only"} : ListSudos(p)

SpecKeys == Init /\ [][NextKeys]_vars

\* The key registry on its own: keys are stored under any name, the name of
\* the alias included, as ArrayBuffers or typed arrays, deleted and reset,
\* and data is encrypted and decrypted under them.
RegistryMaterial == {"m1", "m2"}
Plaintexts == {"", "a"}
RegistryCiphers ==
  {NoCipher} \cup {Ciphertext(m, x) : m \in RegistryMaterial \cup {Zeros}, x \in Plaintexts}
NextRegistry ==
  \/ \E k \in KeyNames, m \in RegistryMaterial, b \in Backings : InsertKeyAs(k, m, b)
  \/ \E k \in RotatedKeyIds : SetSymmetricKeyId(k)
  \/ \E k \in KeyNames : DeleteKey(k)
  \/ Reset
  \/ \E k \in KeyNames, m \in RegistryMaterial : PushSymmetricKey(k, m)
  \/ \E k \in KeyNames : GetKey(k)
  \/ \E k \in RotatedKeyIds, x \in Plaintexts : Encrypt(k, x)
  \/ \E k \in RotatedKeyIds, c \in RegistryCiphers : Decrypt(k, c)

SpecRegistry == Init /\ [][NextRegistry]_vars

\* ------------------------------------------------ ApiClient: response handling
GRAPHQL_ERROR_SUDO_NOT_FOUND == "sudoplatform.sudo.SudoNotFound"
GRAPHQL_ERROR_POLICY_ERROR == "sudoplatform.PolicyFailed"
GRAPHQL_ERROR_INSUFFICIENT_ENTITLEMENTS_ERROR == "sudoplatform.InsufficientEntitlementsError"
GRAPHQL_ERROR_CONDITIONAL_CHECK_FAILED == "DynamoDB:ConditionalCheckFailedException"
GRAPHQL_ERROR_SERVER_ERROR == "sudoplatform.sudo.ServerError"
\* The error types a response may carry: the five the client names and one
\* it does not.
ErrorTypes ==
  { GRAPHQL_ERROR_SUDO_NOT_FOUND, GRAPHQL_ERROR_POLICY_ERROR,
    GRAPHQL_ERROR_INSUFFICIENT_ENTITLEMENTS_ERROR,
    GRAPHQL_ERROR_CONDITIONAL_CHECK_FAILED, GRAPHQL_ERROR_SERVER_ERROR,
    "sudoplatform.sudo.Other" }
MaxErrors == 2
ErrorLists == UNION {[1..n -> ErrorTypes] : n \in 0..MaxErrors}

\* What the transport hands the ApiClient for one operation: the call either
\* throws (a network error, or an error that may carry graphQLErrors) or
\* resolves with result.errors and a payload that is present or not.
Thrown == {"none", "network", "call"}
Responses ==
  {[thrown |-> "none", errors |-> e, data |-> d] : e \in ErrorLists, d \in BOOLEAN}
    \cup {[thrown |-> "call", errors |-> e, data |-> FALSE] : e \in ErrorLists}
    \cup {[thrown |-> "network", errors |-> <<>>, data |-> FALSE]}

\* graphQLErrorsToClientError: a switch on the error's errorType.  The client
\* of revision A names the policy type, that of revision B the entitlements
\* type; every type a revision does not name falls to the default.
graphQLErrorsToClientError(rv, errorType) ==
  CASE errorType = GRAPHQL_ERROR_SUDO_NOT_FOUND -> "SudoNotFoundError"
    [] rv = "A" /\ errorType = GRAPHQL_ERROR_POLICY_ERROR -> "PolicyError"
    [] rv = "B" /\ errorType = GRAPHQL_ERROR_INSUFFICIENT_ENTITLEMENTS_ERROR ->
         "InsufficientEntitlementsError"
    [] errorType = GRAPHQL_ERROR_CONDITIONAL_CHECK_FAILED -> "VersionMismatchError"
    [] errorType = GRAPHQL_ERROR_SERVER_ERROR -> "ServiceError"
    [] OTHER -> "UnknownGraphQLError"

\* A checkGraphQLResponseErrors that raises the failure of the last error.
checkGraphQLResponseErrorsLast(rv, errors) ==
  IF errors # <<>> THEN graphQLErrorsToClientError(rv, errors[Len(errors)]) ELSE "ok"

\* checkGraphQLResponseErrors: throws the failure mapped from errors[0] when
\* there is one.
checkGraphQLResponseErrors(rv, errors) ==
  IF errors # <<>> THEN graphQLErrorsToClientError(rv, Head(errors)) ELSE "ok"

\* The catch block of a call: the failure mapped from err.graphQLErrors[0],
\* FatalError when the error carries none; revision B first hands a network
\* error to mapNetworkErrorToClientError.
mapGraphQLCallError(rv, r) ==
  IF rv = "B" /\ r.thrown = "network" THEN "NetworkError"
  ELSE IF r.errors # <<>> THEN graphQLErrorsToClientError(rv, Head(r.errors))
  ELSE "FatalError"

\* returnOrThrow, and the if/else that ends createSudo, updateSudo and
\* listSudos in revision A.
returnOrThrow(data) == IF data THEN "ok" ELSE "FatalError"

\* ApiClient.createSudo / updateSudo / listSudos: catch, then
\* checkGraphQLResponseErrors(result.errors), then the payload check.
createSudoResponse(rv, r) ==
  IF r.thrown # "none" THEN mapGraphQLCallError(rv, r)
  ELSE IF checkGraphQLResponseErrors(rv, r.errors) # "ok"
    THEN checkGraphQLResponseErrors(rv, r.errors)
  ELSE returnOrThrow(r.data)

updateSudoResponse(rv, r) ==
  IF r.thrown # "none" THEN mapGraphQLCallError(rv, r)
  ELSE IF checkGraphQLResponseErrors(rv, r.errors) # "ok"
    THEN checkGraphQLResponseErrors(rv, r.errors)
  ELSE returnOrThrow(r.data)

listSudosResponse(rv, r) ==
  IF r.thrown # "none" THEN mapGraphQLCallError(rv, r)
  ELSE IF checkGraphQLResponseErrors(rv, r.errors) # "ok"
    THEN checkGraphQLResponseErrors(rv, r.errors)
  ELSE returnOrThrow(r.data)

\* ApiClient.deleteSudo: catch, then checkGraphQLResponseErrors(result.errors);
\* the method ends there and returns nothing.
deleteSudoResponse(rv, r) ==
  IF r.thrown # "none" THEN mapGraphQLCallError(rv, r)
  ELSE checkGraphQLResponseErrors(rv, r.errors)

Operations == {"createSudo", "updateSudo", "deleteSudo", "listSudos"}
Mutations == {"createSudo", "updateSudo", "deleteSudo"}
responseOutcome(rv, op, r) ==
  CASE op = "createSudo" -> createSudoResponse(rv, r)
    [] op = "updateSudo" -> updateSudoResponse(rv, r)
    [] op = "deleteSudo" -> deleteSudoResponse(rv, r)
    [] op = "listSudos" -> listSudosResponse(rv, r)

\* The ApiClient handles the response r of operation op; the response is kept
\* beside the outcome.
Respond(op, r) ==
  /\ last' = Last(op, responseOutcome(rev, op, r), {}, <<>>, <<r>>)
  /\ UNCHANGED <<rev, inflight, keyStore, pushed, signedIn, worldVars, subVars, pending>>

NextResponses == \E op \in Operations, r \in Responses : Respond(op, r)

SpecResponses == Init /\ [][NextResponses]_vars

\* --------------------------------------------- next callbacks, await by await
MaxInflight == 2
\* A callback or call suspended at an await.  op: what it is; ct, id, data:
\* its change type, subscriber id and pushed record; read: the cached items
\* it had read when it was suspended.
Suspended(op, ct, id, data, read) ==
  [op |-> op, ct |-> ct, id |-> id, data |-> data, read |-> read]

\* The world as a callback sees it that resumes with the cached items it
\* read before it was suspended.
resumed(w, cachedItems) == [w EXCEPT !.cacheInit = TRUE, !.cacheList = cachedItems]

\* What the next callback of a change type does once it resumes after
\* `await getCachedQueryItems()`: it patches the items it read and writes
\* them with replaceCachedQueryItems, then calls sudoChanged.
nextResumes(w, ks, m, h) ==
  LET seen == resumed(w, h.read)
      out == IF h.ct = "Create" THEN onCreateSudoNext(seen, ks, m, h.data)
             ELSE IF h.ct = "Update" THEN onUpdateSudoNext(seen, ks, m, h.data)
             ELSE onDeleteSudoNext(seen, ks, m, h.data)
  IN [w |-> [w EXCEPT !.cacheInit = out.w.cacheInit, !.cacheList = out.w.cacheList],
      result |-> out.result, log |-> out.log]

\* A pushed event reaches its next callback, which decodes the record
\* (await processListSudos) and reads the cached items; the callback is
\* suspended until `await getCachedQueryItems()` resumes it.  A record that
\* does not decode ends the callback.
OnNextReads(e) ==
  LET sudos == processListSudos(keyStore, s3, blobCache, <<e.data>>, "cache-only", FALSE)
  IN /\ open[e.ct] > 0
     /\ pending' = pending \ {e}
     /\ IF sudos.result # "ok"
        THEN /\ last' = Last("next", sudos.result, {}, <<>>, <<>>)
             /\ UNCHANGED inflight
        ELSE /\ Cardinality(inflight) < MaxInflight
             /\ inflight' = inflight \cup
                  {Suspended("next", e.ct, "", e.data, getCachedQueryItems(World))}
             /\ last' = Last("next", "suspended", {}, <<>>, <<>>)
     /\ UNCHANGED <<rev, pushed, keyStore, signedIn, worldVars, subVars>>

\* A suspended next callback resumes and runs to its end.
OnNextResumes(h) ==
  LET out == nextResumes(World, keyStore, subs[h.ct], h)
  IN /\ h.op = "next"
     /\ Within(out.w)
     /\ Becomes(out.w)
     /\ inflight' = inflight \ {h}
     /\ last' = Last("next", out.result, {}, <<>>, out.log)
     /\ UNCHANGED <<rev, pushed, keyStore, signedIn, subVars, pending>>

\* Two records are created, listed and deleted by this client while a
\* subscriber of Create and Delete is registered; the next callbacks run
\* await by await, so that a callback may read the cached items, be
\* suspended, and resume after another callback or a call of this client
\* has written them.
NextRace ==
  \/ \E k \in KeyIds, m \in KeyMaterial : InsertKey(k, m)
  \/ \E k \in KeyIds : SetSymmetricKeyId(k)
  \/ \E k \in KeyIds, m \in KeyMaterial : PushSymmetricKey(k, m)
  \/ \E ct \in {"Create", "Delete"} : Subscribe("l1", ct, FALSE)
  \/ CreateSudo("a", NoValue, FALSE, TRUE)
  \/ \E i \in SudoIds : DeleteSudo(i, 2, TRUE)
  \/ ListSudos("network-only")
  \/ \E e \in pending : OnNextReads(e)
  \/ \E h \in inflight : OnNextResumes(h)

SpecRace == Init /\ [][NextRace]_vars

\* ------------------------------------------------- subscribe, await by await
\* In the revision whose user client answers getSubject() asynchronously
\* subscribe is suspended at `await getSubject()` before it touches the
\* manager.  read: the owner it is given (whether a user is signed in) and
\* whether the manager held a watcher when the call was made.
SubscribeCalls(id, ct) ==
  /\ rev = "B"
  /\ Cardinality(inflight) < MaxInflight
  /\ \A h \in inflight : ~(h.op = "subscribe" /\ h.ct = ct /\ h.id = id)
  /\ inflight' = inflight \cup
       {Suspended("subscribe", ct, id, NoId,
                  [owner |-> signedIn, watcher |-> subs[ct].watcher])}
  /\ last' = LastSub("subscribe", "suspended", <<>>)
  /\ UNCHANGED <<rev, pushed, keyStore, signedIn, worldVars, subVars, pending>>

\* A suspended subscribe resumes with its owner and runs to its end without
\* another await: replaceSubscriber, the watcher test, the transport
\* subscription and the Connected notification.  calls: whether it opened a
\* transport subscription; returned: the call that resumed.
SubscribeResumes(h, failsAtOnce) ==
  LET out == subscribe(subs[h.ct], open[h.ct], h.id, h.ct, failsAtOnce)
      opens == IF failsAtOnce THEN ~subs[h.ct].watcher
               ELSE out.open > open[h.ct]
  IN /\ h.op = "subscribe"
     /\ inflight' = inflight \ {h}
     /\ IF ~h.read.owner
        THEN /\ last' = Last("subscribe", "NotSignedInError", {}, <<h>>, <<>>)
             /\ UNCHANGED subVars
        ELSE /\ subs' = [subs EXCEPT ![h.ct] = out.m]
             /\ open' = [open EXCEPT ![h.ct] = out.open]
             /\ told' = [told EXCEPT ![h.ct] = Hears(h.ct, out.m, {h.id}, out.log)]
             /\ last' = Last("subscribe", "ok",
                             IF opens THEN {"watcher.subscribe"} ELSE {},
                             <<h>>, out.log)
     /\ UNCHANGED <<rev, pushed, keyStore, signedIn, worldVars, pending>>

\* Two subscribers subscribe and unsubscribe for two change types while the
\* user signs in and out and the transport ends subscriptions; in the
\* revision with an asynchronous getSubject() the subscribe calls overlap.
RaceTypes == {"Create", "Update"}
NextSubscribe ==
  \/ SignIn
  \/ SignOut
  \/ \E l \in Listeners, ct \in RaceTypes : SubscribeCalls(l, ct)
  \/ \E h \in inflight, e \in BOOLEAN : SubscribeResumes(h, e)
  \/ \E l \in Listeners, ct \in RaceTypes : rev = "A" /\ Subscribe(l, ct, FALSE)
  \/ \E l \in Listeners, ct \in RaceTypes : Unsubscribe(l, ct)
  \/ \E ct \in RaceTypes : TransportError(ct)

SpecSubscribe == Init /\ [][NextSubscribe]_vars

\* ------------------------------------------------------- buffers, byte by byte
MaxBufLen == 2
Bytes == {0, 1}
\* The buffers of at most MaxBufLen bytes.
Buffers == UNION {[1..n -> Bytes] : n \in 0..MaxBufLen}
\* AesSecurityProvider.ivSize, and what generateRandomData(ivSize) may draw.
ivSize == 16
IVs == {[i \in 1..ivSize |-> b] : b \in Bytes} \cup {[i \in 1..ivSize |-> i % 2]}

\* new Uint8Array(length): length zero bytes.
Uint8Array(length) == [i \in 1..length |-> 0]
\* typedArray.set(source, offset): the bytes of source written from offset.
set(array, source, offset) ==
  [i \in DOMAIN array |->
     IF i > offset /\ i <= offset + Len(source) THEN source[i - offset] ELSE array[i]]
\* typedArray.slice(begin, end) and ArrayBuffer.slice(begin, end): a negative
\* index counts from the end, indices are clamped to the length, and an end
\* at or before begin gives no bytes.
slice(array, begin, end) ==
  LET Rel(k) == IF k < 0 THEN (IF Len(array) + k < 0 THEN 0 ELSE Len(array) + k)
                ELSE IF k > Len(array) THEN Len(array) ELSE k
      from == Rel(begin)
      to == Rel(end)
  IN [i \in 1..(IF to > from THEN to - from ELSE 0) |-> array[from + i]]

\* A concat that puts rhs before lhs.
concatPrepended(lhs, rhs) ==
  set(set(Uint8Array(Len(lhs) + Len(rhs)), rhs, 0), lhs, Len(rhs))

\* BufferUtil.concat.
concat(lhs, rhs) ==
  set(set(Uint8Array(Len(lhs) + Len(rhs)), lhs, 0), rhs, Len(lhs))

\* BufferUtil.split.
split(buffer, lhsLength) ==
  [lhs |-> slice(buffer, 0, lhsLength), rhs |-> slice(buffer, lhsLength, Len(buffer))]

\* What encrypt returns for the cipher's output and the IV it drew:
\* Buffer.concat(encrypted, iv).
encryptPayload(encrypted, iv) == concat(encrypted, iv)

\* What decrypt takes from its data before it calls the cipher.
decryptParts(data) ==
  [encryptedData |-> slice(data, 0, Len(data) - ivSize),
   iv |-> slice(data, Len(data) - ivSize, Len(data))]

bufferFrame == <<rev, inflight, keyStore, pushed, signedIn, worldVars, subVars, pending>>

\* concat(lhs, rhs) is called; split is called on what it returned, at the
\* length of lhs.
Concat(lhs, rhs) ==
  /\ last' = Last("concat", "ok", {}, <<concat(lhs, rhs)>>, <<lhs, rhs>>)
  /\ UNCHANGED bufferFrame

SplitCombined ==
  LET out == split(last.returned[1], Len(last.log[1]))
  IN /\ last.op = "concat"
     /\ last' = Last("split", "ok", {}, <<out.lhs, out.rhs>>, last.log)
     /\ UNCHANGED bufferFrame

\* encrypt frames the cipher's output and a fresh IV; decrypt takes the
\* payload apart.
EncryptFrames(encrypted, iv) ==
  /\ last' = Last("payload", "ok", {}, <<encryptPayload(encrypted, iv)>>, <<encrypted, iv>>)
  /\ UNCHANGED bufferFrame

DecryptSplits ==
  LET out == decryptParts(last.returned[1])
  IN /\ last.op = "payload"
     /\ last' = Last("parts", "ok", {}, <<out.encryptedData, out.iv>>, last.log)
     /\ UNCHANGED bufferFrame

NextBuffer ==
  \/ \E lhs \in Buffers, rhs \in Buffers : Concat(lhs, rhs)
  \/ SplitCombined
  \/ \E encrypted \in Buffers, iv \in IVs : EncryptFrames(encrypted, iv)
  \/ DecryptSplits

SpecBuffer == Init /\ [][NextBuffer]_vars

C2_OneTransportSubscription ==
  \A ct \in ChangeTypes :
    /\ open[ct] <= 1
    /\ \A l \in Listeners, e \in BOOLEAN :
         subs[ct].subscribers # <<>>
           => subscribe(subs[ct], open[ct], l, ct, e).open = open[ct]
    /\ \A l \in Listeners :
         subs[ct].subscribers = <<l>>
           => removeSubscriber(subs[ct], open[ct], l).open = 0

\* A second subscriber has just joined a change type whose transport
\* subscription was open already, and it is still the only one.
C2_Witness ==
  /\ last.op = "subscribe"
  /\ last.log = <<>>
  /\ \E ct \in ChangeTypes : Len(subs[ct].subscribers) = 2 /\ open[ct] = 1

\* How often a log tells a subscriber of a connection state of a change type.
Told(log, l, ct, state) ==
  Cardinality({k \in DOMAIN log :
                 log[k] = Note("connectionStatusChanged", l, ct, state, NoId)})

\* C3: when a change type's transport subscription completes or fails, each
\* subscriber registered for it at that moment is told Disconnected exactly
\* once and nobody else is told; afterwards the change type has no
\* subscribers, no watcher, no handle and no transport subscription.
C3_DisconnectedOnceThenIdle ==
  \A ct \in ChangeTypes :
    open[ct] > 0 =>
      LET out == terminated(subs[ct], open[ct], ct)
      IN /\ \A l \in Listeners :
              Told(out.log, l, ct, "Disconnected") =
                IF l \in Range(subs[ct].subscribers) THEN 1 ELSE 0
         /\ out.m = IdleManager
         /\ out.open = 0

\* A transport subscription with two subscribers has just ended.
C3_Witness ==
  /\ last.op \in {"complete", "error"}
  /\ \E ct \in ChangeTypes :
       /\ \A l \in Listeners : Told(last.log, l, ct, "Disconnected") = 1
       /\ subs[ct] = IdleManager
       /\ open[ct] = 0


\* The cached list snapshot is what a remote list returns: one entry for each
\* record of the service, equal to it.
Current(w) ==
  /\ w.cacheInit
  /\ Range(w.cacheList) = w.backend
  /\ Len(w.cacheList) = Cardinality(w.backend)

\* The entries list(CacheOnly) returns for an id.
CachedEntries(w, ks, id) ==
  LET listed == listSudos(w, ks, "cache-only").returned
  IN {k \in DOMAIN listed : listed[k].id = id}
CachedEntry(w, ks, id) ==
  LET listed == listSudos(w, ks, "cache-only").returned
  IN listed[CHOOSE k \in DOMAIN listed : listed[k].id = id]

\* C4: when the cached list snapshot is current, as after a remote list, a
\* successful createSudo leaves in list(CacheOnly) the created record with
\* the title supplied, a successful updateSudo leaves exactly one entry for
\* the id with the new version and the title supplied, and a successful
\* deleteSudo leaves no entry for the id.
C4_MutationsKeepCacheCurrent ==
  Current(World) =>
    /\ \A t \in TitleInputs :
         LET out == createSudo(World, keyStore, rev, Sudo(NoId, 0, t, NoValue),
                               FALSE, TRUE)
             made == out.returned[1].id
         IN out.result = "ok"
            => /\ CachedEntries(out.w, keyStore, made) # {}
               /\ CachedEntry(out.w, keyStore, made).title
                    = IF t = "" THEN NoValue ELSE t
    /\ \A i \in SudoIds, v \in 1..MaxVersion, t \in TitleInputs :
         LET out == updateSudo(World, keyStore, rev, Sudo(i, v, t, NoValue),
                               FALSE, TRUE)
         IN out.result = "ok"
            => /\ Cardinality(CachedEntries(out.w, keyStore, i)) = 1
               /\ CachedEntry(out.w, keyStore, i).version = v + 1
               /\ t # "" => CachedEntry(out.w, keyStore, i).title = t
    /\ \A i \in SudoIds, v \in 1..MaxVersion :
         LET out == deleteSudo(World, keyStore, rev, Sudo(i, v, NoValue, NoValue),
                               TRUE)
         IN out.result = "ok" => CachedEntries(out.w, keyStore, i) = {}

\* The same, of the revision whose mutations carry update callbacks.
C4_RevisionB == rev = "B" => C4_MutationsKeepCacheCurrent


\* C5: whatever direct mutations and pushed Create, Update and Delete events
\* came before, the cached list snapshot holds at most one entry per record
\* id.
C5_OneEntryPerId ==
  \A n, m \in DOMAIN cacheList : cacheList[n].id = cacheList[m].id => n = m


\* The ids list(CacheOnly) returns.
CachedIds(w, ks) == Ids(Range(listSudos(w, ks, "cache-only").returned))

\* C6: after updateSudo succeeds on one record, list(CacheOnly) still
\* returns every record that was cached before the call, and where the
\* client registers the updated record through QueryCache.add (revision A)
\* it returns the updated record too.
C6_AddKeepsCachedRecords ==
  \A i \in SudoIds, v \in 1..MaxVersion, t \in TitleInputs :
    LET out == updateSudo(World, keyStore, rev, Sudo(i, v, t, NoValue),
                          FALSE, TRUE)
    IN out.result = "ok"
       => /\ CachedIds(World, keyStore) \subseteq CachedIds(out.w, keyStore)
          /\ rev = "A" => i \in CachedIds(out.w, keyStore)
\* The same frame condition in the revision whose update mutation patches
\* the cached list in its update callback.
C6_RevisionB == rev = "B" => C6_AddKeepsCachedRecords


C8_DeleteLeavesNothing ==
  \A i \in SudoIds, v \in 1..MaxVersion, d \in BOOLEAN :
    LET out == deleteSudo(World, keyStore, rev, Sudo(i, v, NoValue, NoValue), d)
        listed == listSudos(out.w, keyStore, "network-only")
    IN out.result = "ok"
       => /\ listed.result = "ok" => ~HasId(listed.returned, i)
          /\ out.w.blobCache[getObjectId(i)] = NoValue
\* The remote half of C8 alone.
C8_RemoteListDropsId ==
  \A i \in SudoIds, v \in 1..MaxVersion, d \in BOOLEAN :
    LET out == deleteSudo(World, keyStore, rev, Sudo(i, v, NoValue, NoValue), d)
        listed == listSudos(out.w, keyStore, "network-only")
    IN out.result = "ok"
       => /\ listed.result = "ok"
          /\ ~HasId(listed.returned, i)

\* C9: after deleteSudo succeeds on a record that has a Private blob claim,
\* the claim's remote object is gone from object storage and its Blob Store
\* entry is gone.
C9_DeleteRemovesObjectAndEntry ==
  \A i \in Ids(backend), v \in 1..MaxVersion, d \in BOOLEAN :
    LET out == deleteSudo(World, keyStore, rev, Sudo(i, v, NoValue, NoValue), d)
    IN (out.result = "ok" /\ Find(backend, i).avatar # NoSecure)
       => /\ out.w.s3[getObjectId(i)] = NoCipher
          /\ out.w.blobCache[getObjectId(i)] = NoValue

\* C10: when updateSudo has written a blob claim's plaintext to the Blob
\* Store and encrypting or uploading it fails, the Blob Store entry is
\* removed, the call fails with the error of the failed step, no update
\* mutation is sent and the service's records are unchanged.
C10_BlobFailureRollsBack ==
  \A i \in SudoIds, v \in 1..MaxVersion, t \in BlobTitleInputs,
     a \in BOOLEAN, u \in BOOLEAN :
    LET out == updateSudo(World, keyStore, rev, Sudo(i, v, t, "f1"), a, u)
        keyId == getSymmetricKeyId(keyStore)
        encrypted == encrypt(keyStore, keyId, "f1")
        reached == keyId # "" /\ (a \/ t = "" \/ createSecureString(keyStore, t).ok)
    IN (reached /\ (~encrypted.ok \/ ~u))
       => /\ out.w.blobCache[getObjectId(i)] = NoValue
          /\ out.result = IF ~encrypted.ok THEN encrypted.error ELSE "S3UploadError"
          /\ "updateMutation" \notin out.calls
          /\ out.w.backend = backend
\* An updateSudo that failed at the upload and left no Blob Store entry.
C10_Witness ==
  /\ last.op = "updateSudo"
  /\ last.result = "S3UploadError"
  /\ "updateMutation" \notin last.calls
  /\ \A i \in SudoIds : blobCache[getObjectId(i)] = NoValue


\* C11: a createSudo that succeeds has sent exactly two mutation requests:
\* first a create mutation with no claims and no objects, then an update
\* mutation for the id the create mutation returned, with expectedVersion
\* the version it returned; and it returns the record with the id and the
\* version the update mutation returned and the claims given.
C11_CreateThenUpdate ==
  \A t \in BlobTitleInputs, f \in FileInputs, a \in BOOLEAN, u \in BOOLEAN :
    LET out == createSudo(World, keyStore, rev, Sudo(NoId, 0, t, f), a, u)
        created == apiCreateSudo(World, rev, NoSecure, NoSecure).item
    IN out.result = "ok"
       => /\ Len(out.sent) = 2
          /\ out.sent[1].mutation = "createSudo"
          /\ out.sent[1].claims = NoSecure
          /\ out.sent[1].objects = NoSecure
          /\ out.sent[2].mutation = "updateSudo"
          /\ out.sent[2].id = created.id
          /\ out.sent[2].expectedVersion = created.version
          /\ out.returned = <<Sudo(created.id, Find(out.w.backend, created.id).version,
                                   t, NoValue)>>
          /\ Find(out.w.backend, created.id).version = created.version + 1
          /\ Find(out.w.backend, created.id).title = out.sent[2].claims
          /\ Find(out.w.backend, created.id).avatar = out.sent[2].objects
\* A createSudo with a title and a file has just succeeded through both
\* mutations.
C11_Witness ==
  /\ last.op = "createSudo"
  /\ last.result = "ok"
  /\ last.calls = {"createMutation", "upload", "updateMutation"}
  /\ \E r \in backend : r.version = 2 /\ r.title # NoSecure /\ r.avatar # NoSecure


\* What C12 says of single calls: a successful updateSudo returns, and leaves
\* with the service, the version one above the expectedVersion it sent, and
\* a successful createSudo returns version 2.
C12_CallsRaiseByOne ==
  /\ \A i \in SudoIds, v \in 1..MaxVersion, t \in TitleInputs :
       LET out == updateSudo(World, keyStore, rev, Sudo(i, v, t, NoValue),
                             FALSE, TRUE)
       IN out.result = "ok"
          => /\ out.sent = <<Request("updateSudo", i, v, out.sent[1].claims, NoSecure)>>
             /\ out.returned[1].version = v + 1
             /\ Find(out.w.backend, i).version = v + 1
  /\ \A t \in TitleInputs :
       LET out == createSudo(World, keyStore, rev, Sudo(NoId, 0, t, NoValue),
                             FALSE, TRUE)
       IN out.result = "ok" => out.returned[1].version = 2
\* What C12 says of steps: no step lowers the version of a record the
\* service holds, and no step raises it by more than 1.
C12_StepsNeverLower ==
  \A r \in backend :
    r.id \in Ids(backend')
      => Find(backend', r.id).version \in {r.version, r.version + 1}
Invoked(log, l, ct, title, id) ==
  Cardinality({k \in DOMAIN log : log[k] = Note("sudoChanged", l, ct, title, id)})
\* The sudoChanged calls in a log.
Invocations(log) == {k \in DOMAIN log : log[k].kind = "sudoChanged"}
\* What the next callback of a change type does with a pushed record.
Handled(ct, data) ==
  IF ct = "Create" THEN onCreateSudoNext(World, keyStore, subs[ct], data)
  ELSE IF ct = "Update" THEN onUpdateSudoNext(World, keyStore, subs[ct], data)
  ELSE onDeleteSudoNext(World, keyStore, subs[ct], data)
\* The title a pushed record carries, decrypted.
DecodedTitle(data) ==
  IF data.title = NoSecure THEN NoValue
  ELSE decrypt(keyStore, data.title.keyId, Base64Decode(data.title.data)).data

\* C13: when a pushed event of a change type is handled, each subscriber
\* registered for that change type is called exactly once with that change
\* type and the decoded record, and nobody else is called: a subscriber
\* registered for other change types only gets no call.
C13_EachRegisteredListenerOnce ==
  \A e \in pending :
    open[e.ct] > 0 =>
      LET out == Handled(e.ct, e.data)
      IN /\ out.result = "ok"
         /\ \A l \in Listeners :
              Invoked(out.log, l, e.ct, DecodedTitle(e.data), e.data.id)
                = IF l \in Range(subs[e.ct].subscribers) THEN 1 ELSE 0
         /\ Cardinality(Invocations(out.log)) = Len(subs[e.ct].subscribers)
\* An Update event carrying a title has just been handled: both subscribers
\* of Update were called once, while l1 is also registered for Create.
C13_Witness ==
  /\ last.op = "onUpdateSudo"
  /\ Len(subs["Update"].subscribers) = 2
  /\ "l1" \in Range(subs["Create"].subscribers)
  /\ \A l \in Listeners : \E t \in {"a"}, i \in SudoIds :
       Invoked(last.log, l, "Update", t, i) = 1
\* A Create event has just been handled with l2 registered for Create and l1
\* for other change types only: l2 was called and l1 was not.
C13_WitnessOthers ==
  /\ last.op = "onCreateSudo"
  /\ subs["Create"].subscribers = <<"l2">>
  /\ "l1" \in Range(subs["Update"].subscribers)
  /\ Cardinality(Invocations(last.log)) = 1


\* C14: a subscriber whose handler is invoked with a change of a change type
\* has been told Connected for that change type since it last subscribed:
\* every subscriber that the handler of a pushed event invokes is among
\* those told Connected.
C14_ConnectedBeforeChanges ==
  \A e \in pending :
    open[e.ct] > 0 =>
      \A k \in Invocations(Handled(e.ct, e.data).log) :
        Handled(e.ct, e.data).log[k].listener \in told[e.ct]


\* The subscribers registered for a change type.
Registered(ct) == Range(subs[ct].subscribers)
\* unsubscribe(l, ct) takes l, and nobody else, out of the subscribers of ct
\* and leaves the other change types' subscribers and transport
\* subscriptions alone; the transport subscription of ct stays open while
\* other subscribers remain.
C15_UnsubscribeStep ==
  \A l \in Listeners, ct \in ChangeTypes :
    Unsubscribe(l, ct) =>
      /\ Range(subs'[ct].subscribers) = Registered(ct) \ {l}
      /\ Registered(ct) \ {l} # {} => open'[ct] = open[ct]
      /\ \A other \in ChangeTypes \ {ct} :
           subs'[other] = subs[other] /\ open'[other] = open[other]
\* Only its own subscribe registers a subscriber for a change type.
C15_OnlySubscribeRegisters ==
  \A l \in Listeners, ct \in ChangeTypes :
    (l \notin Registered(ct) /\ l \in Range(subs'[ct].subscribers)) =>
      \/ \E e \in BOOLEAN : Subscribe(l, ct, e)
      \/ SubscribeAll(l)
\* The handler of a pushed event calls no subscriber that is not registered
\* for the event's change type, and calls each registered one.
C15_HandlerCallsRegisteredOnly ==
  \A e \in pending :
    open[e.ct] > 0 =>
      \A l \in Listeners :
        (l \in Registered(e.ct)) <=>
          (\E k \in Invocations(Handled(e.ct, e.data).log) :
             Handled(e.ct, e.data).log[k].listener = l)
\* C15: after unsubscribe(id, changeType) the subscriber under id gets no
\* further sudoChanged call for that change type until it subscribes again,
\* while the subscribers under other ids and the registrations for other
\* change types stay as they were and keep getting their calls.
C15_UnsubscribedHearsNothing ==
  /\ [](C15_HandlerCallsRegisteredOnly)
  /\ [][C15_UnsubscribeStep /\ C15_OnlySubscribeRegisters]_vars
\* l1 has just left Update, whose transport subscription it had opened or
\* joined, while l2 stays registered for Update, l1 stays registered for
\* Create, and an Update event is still to be handled.
C15_Witness ==
  /\ last.op = "unsubscribe"
  /\ subs["Update"].subscribers = <<"l2">>
  /\ open["Update"] = 1
  /\ "l1" \in Registered("Create")
  /\ \E e \in pending : e.ct = "Update"


\* C16: when unsubscribeAll() returns, none of Create, Update and Delete has
\* a subscriber, a watcher or a handle, and none has an open transport
\* subscription.
C16_UnsubscribeAllClearsAll ==
  [][UnsubscribeAll =>
       \A ct \in ChangeTypes : subs'[ct] = IdleManager /\ open'[ct] = 0]_vars
\* unsubscribeAll() has just closed the transport subscriptions of all three
\* change types.
C16_Witness ==
  /\ last.op = "unsubscribeAll"
  /\ last.calls = ChangeTypes
  /\ \A ct \in ChangeTypes : subs[ct] = IdleManager /\ open[ct] = 0


\* C17: a subscribe called while no user is signed in fails with
\* NotSignedInError, and the subscribers, watchers, handles and open
\* transport subscriptions of every change type are what they were.
C17_SubscribeNeedsSignIn ==
  [][\A l \in Listeners, ct \in ChangeTypes, e \in BOOLEAN :
       (~signedIn /\ Subscribe(l, ct, e)) =>
         /\ last'.result = "NotSignedInError"
         /\ last'.log = <<>>
         /\ subs' = subs
         /\ open' = open]_vars
\* A subscribe has just failed for want of a signed-in user, while l1's
\* earlier registration for Create and its transport subscription stand.
C17_Witness ==
  /\ ~signedIn
  /\ last.op = "subscribe"
  /\ last.result = "NotSignedInError"
  /\ subs["Create"].subscribers = <<"l1">>
  /\ open["Create"] = 1
  /\ subs["Update"] = IdleManager


\* C18: while the key store holds no current key id, every createSudo fails
\* with IllegalStateError, sends no request, makes no remote call, and
\* leaves the service's records and everything else as they were.
C18_CreateNeedsKeyId ==
  getSymmetricKeyId(keyStore) = "" =>
    \A t \in BlobTitleInputs, f \in FileInputs, a \in BOOLEAN, u \in BOOLEAN :
      LET out == createSudo(World, keyStore, rev, Sudo(NoId, 0, t, f), a, u)
      IN /\ out.result = "IllegalStateError"
         /\ out.sent = <<>>
         /\ out.calls = {}
         /\ out.w = World
\* A createSudo has just failed for want of a current key id, although key
\* material is stored; the service holds no record.
C18_Witness ==
  /\ last.op = "createSudo"
  /\ last.result = "IllegalStateError"
  /\ last.calls = {}
  /\ getSymmetricKeyId(keyStore) = ""
  /\ \E k \in KeyIds : getKey(keyStore, k) # NoValue
  /\ backend = {}


\* An updateSudo outcome that failed with an error before doing anything:
\* no request sent, no remote call, nothing written to the blob cache or
\* object storage, the service's records as they were.
FailedUntouched(out, error) ==
  /\ out.result = error
  /\ out.sent = <<>>
  /\ out.calls = {}
  /\ out.w = World
\* C19: an updateSudo of a record without an id fails with
\* IllegalArgumentError, and an updateSudo of a record with an id while the
\* key store holds no current key id fails with IllegalStateError; either
\* way nothing is written to the blob cache, nothing is uploaded and no
\* update mutation is sent.
C19_UpdatePreconditions ==
  \A v \in 1..MaxVersion, t \in BlobTitleInputs, f \in FileInputs,
     a \in BOOLEAN, u \in BOOLEAN :
    /\ FailedUntouched(updateSudo(World, keyStore, rev, Sudo(NoId, v, t, f), a, u),
                       "IllegalArgumentError")
    /\ keyStore[KEY_NAME_SYMMETRIC_KEY_ID] = NoValue =>
         \A i \in BlobSudoIds :
           FailedUntouched(updateSudo(World, keyStore, rev, Sudo(i, v, t, f), a, u),
                           "IllegalStateError")
\* An updateSudo of a record with an id has just failed for want of a
\* current key id, with key material stored.
C19_Witness ==
  /\ last.op = "updateSudo"
  /\ last.result = "IllegalStateError"
  /\ last.calls = {}
  /\ keyStore[KEY_NAME_SYMMETRIC_KEY_ID] = NoValue
  /\ \E k \in KeyIds : getKey(keyStore, k) # NoValue
\* An updateSudo of a record without an id has just failed while the service
\* holds a record and a current key id is set.
C19_WitnessNoId ==
  /\ last.op = "updateSudo"
  /\ last.result = "IllegalArgumentError"
  /\ last.calls = {}
  /\ backend # {}
  /\ getSymmetricKeyId(keyStore) # ""


\* The plaintext and the key bytes a ciphertext was made from and with.
PlainOf(cipher) == cipher[2]
BytesOf(cipher) == cipher[1]
\* What updateSudo sends is encrypted under the current key and records its
\* id: the string claim of every request it sends and the object claim,
\* whose object in storage is the file's ciphertext under that key.
C20_SentUnderCurrentKey ==
  \A i \in BlobSudoIds, v \in 1..MaxVersion, t \in BlobTitleInputs,
     f \in FileInputs, a \in BOOLEAN, u \in BOOLEAN :
    LET out == updateSudo(World, keyStore, rev, Sudo(i, v, t, f), a, u)
        keyId == getSymmetricKeyId(keyStore)
    IN \A n \in DOMAIN out.sent :
         /\ keyId \in RotatedKeyIds
         /\ out.sent[n].claims # NoSecure =>
              out.sent[n].claims =
                Secure(keyId, Base64Encode(Ciphertext(getKey(keyStore, keyId), t)))
         /\ out.sent[n].objects # NoSecure =>
              /\ out.sent[n].objects.keyId = keyId
              /\ out.w.s3[getObjectId(i)] = Ciphertext(getKey(keyStore, keyId), f)
\* The key a claim records is still stored under the recorded id, and the
\* object in storage is the one the object claim was written with.
RecordedKeysRemain(item) ==
  /\ item.title # NoSecure => getKey(keyStore, item.title.keyId) # NoValue
  /\ item.avatar # NoSecure =>
       /\ getKey(keyStore, item.avatar.keyId) # NoValue
       /\ s3[getObjectId(item.id)] # NoCipher
       /\ BytesOf(s3[getObjectId(item.id)]) = KeyBytes(item.avatar.keyId)
\* A remote list decrypts every claim and object with the key id recorded
\* on it: while the recorded keys remain stored it succeeds and returns the
\* original plaintexts, whichever key is current.
C20_DecryptsByRecordedId ==
  \A p \in {"network-only", "no-cache"} :
    (\A item \in backend : RecordedKeysRemain(item)) =>
      LET out == listSudos(World, keyStore, p)
      IN /\ out.result = "ok"
         /\ Len(out.returned) = Cardinality(backend)
         /\ \A n \in DOMAIN out.returned :
              LET item == Find(backend, out.returned[n].id)
              IN /\ out.returned[n].title =
                      IF item.title = NoSecure THEN NoValue
                      ELSE PlainOf(Base64Decode(item.title.data))
                 /\ out.returned[n].file =
                      IF item.avatar = NoSecure THEN NoValue
                      ELSE PlainOf(s3[getObjectId(item.id)])
\* C20: every claim and object updateSudo sends is encrypted under the key
\* current at that time and records that key's id, and list decrypts each
\* with the recorded id, so a claim written under k1 still decrypts to its
\* plaintext after k2 became current while k1 remains stored.
C20_EncryptCurrentDecryptRecorded ==
  C20_SentUnderCurrentKey /\ C20_DecryptsByRecordedId
\* A remote list has just returned the title and file written under k1,
\* while k2 is the current key.
C20_Witness ==
  /\ last.op = "listSudos"
  /\ last.result = "ok"
  /\ "query" \in last.calls
  /\ getSymmetricKeyId(keyStore) = "k2"
  /\ \E item \in backend :
       /\ item.title # NoSecure /\ item.title.keyId = "k1"
       /\ item.avatar # NoSecure /\ item.avatar.keyId = "k1"
       /\ last.returned = <<Sudo(item.id, item.version, "a", "f1")>>


C22_AbsentKeyFails ==
  \A k \in KeyNames :
    getKey(keyStore, k) = NoValue =>
      /\ \A x \in Plaintexts :
           encrypt(keyStore, k, x)
             = [ok |-> FALSE, error |-> "KeyNotFound", data |-> NoCipher]
      /\ \A c \in RegistryCiphers :
           decrypt(keyStore, k, c)
             = [ok |-> FALSE, error |-> "KeyNotFound", data |-> NoValue]
\* A decrypt under k2 has just failed for want of a key, while k1 holds a
\* key and is the current key id.
C22_Witness ==
  /\ last.op = "decrypt"
  /\ last.result = "KeyNotFound"
  /\ last.returned = <<NoValue>>
  /\ getKey(keyStore, "k2") = NoValue
  /\ getKey(keyStore, "k1") \in RegistryMaterial
  /\ getSymmetricKeyId(keyStore) = "k1"


\* C23: after any sequence of pushSymmetricKey calls the current key id is
\* the key id of the latest call, and every key id pushed before and not
\* since holds the key it was pushed with.
C23_LatestCurrentOthersKept ==
  pushed.latest # NoValue =>
    /\ getSymmetricKeyId(keyStore) = pushed.latest
    /\ \A j \in KeyNames \ {pushed.latest} :
         pushed.bytes[j] # NoValue => getKey(keyStore, j) = pushed.bytes[j]
\* The same while no call has used the name of the alias as its key id; the
\* key id of the latest call then holds its key too.
C23_WithoutAliasName ==
  (pushed.latest # NoValue /\ pushed.bytes[KEY_NAME_SYMMETRIC_KEY_ID] = NoValue) =>
    /\ getSymmetricKeyId(keyStore) = pushed.latest
    /\ \A j \in KeyNames :
         pushed.bytes[j] # NoValue => getKey(keyStore, j) = pushed.bytes[j]
\* k2 was pushed after k1 with another key: k2 is current and k1 holds its
\* key.
C23_WitnessRotated ==
  /\ pushed.latest = "k2"
  /\ pushed.bytes["k1"] = "m1"
  /\ pushed.bytes["k2"] = "m2"
  /\ pushed.bytes[KEY_NAME_SYMMETRIC_KEY_ID] = NoValue
  /\ getSymmetricKeyId(keyStore) = "k2"
  /\ getKey(keyStore, "k1") = "m1"


\* What each call of the key manager does to what getKey returns: insertKey
\* makes getKey return the bytes inserted, deleteKey and reset make it
\* return nothing, getKey returns what is stored and no default, and
\* nothing else changes what it returns for a key id.  insertKey is given
\* the kinds of value in kinds.
KeyRegistryStep(kinds) ==
  /\ \A k \in KeyNames, m \in RegistryMaterial, b \in kinds :
       InsertKeyAs(k, m, b) => getKey(keyStore', k) = m
  /\ \A k \in KeyNames : DeleteKey(k) => getKey(keyStore', k) = NoValue
  /\ Reset => \A k \in KeyNames : getKey(keyStore', k) = NoValue
  /\ \A k \in KeyNames : GetKey(k) => last'.returned = <<keyStore[k]>>
  /\ \A k \in RotatedKeyIds :
       getKey(keyStore', k) # getKey(keyStore, k) =>
         \/ \E m \in RegistryMaterial, b \in Backings : InsertKeyAs(k, m, b)
         \/ \E m \in RegistryMaterial : PushSymmetricKey(k, m)
         \/ DeleteKey(k)
         \/ Reset
\* C24: getKey(k) returns the bytes most recently inserted under k, nothing
\* (and no default key) when k was never inserted or was deleted, and
\* nothing for every key id after reset.
C24_GetReturnsLastInserted ==
  /\ \A k \in KeyNames : getKey(keyStore, k) = NoValue
  /\ [][KeyRegistryStep(Backings)]_vars
\* The same for values handed over as typed arrays, as the callers in the
\* repository do.
C24_TypedArrayValues ==
  /\ \A k \in KeyNames : getKey(keyStore, k) = NoValue
  /\ [][KeyRegistryStep({"Uint8Array"})]_vars
\* getKey has just returned the key inserted under k1 after k2 was deleted.
C24_WitnessTypedArray ==
  /\ rev = "A"
  /\ last.op = "getKey"
  /\ last.returned = <<"m2">>
  /\ getKey(keyStore, "k1") = "m2"
  /\ getKey(keyStore, "k2") = NoValue

\* C25: every mutation (createSudo, updateSudo, deleteSudo) whose call
\* resolves with no errors and no payload fails with FatalError and does
\* not return normally.
C25_NoPayloadIsFatal ==
  (/\ last.op \in Mutations
   /\ last.log # <<>>
   /\ last.log[1].thrown = "none"
   /\ last.log[1].errors = <<>>
   /\ ~last.log[1].data)
    => last.result = "FatalError"

\* C25, save deleteSudo: a createSudo or updateSudo whose call resolves with
\* no errors and no payload fails with FatalError.
C25_CreateUpdateNoPayloadIsFatal ==
  (/\ last.op \in {"createSudo", "updateSudo"}
   /\ last.log # <<>>
   /\ last.log[1].thrown = "none"
   /\ last.log[1].errors = <<>>
   /\ ~last.log[1].data)
    => last.result = "FatalError"

C25_WitnessCreateUpdate ==
  /\ last.op = "updateSudo"
  /\ last.log # <<>>
  /\ last.log[1] = [thrown |-> "none", errors |-> <<>>, data |-> FALSE]
  /\ last.result = "FatalError"

\* C26: a backend error is mapped by its error type to exactly one typed
\* failure -- SudoNotFound for the not-found type, the policy or
\* entitlement failure for the denial type the client names, VersionMismatch
\* for the conditional-check type, ServiceError for the server-error type,
\* UnknownGraphQLError for every other type -- and a response that carries
\* errors (in result.errors, or in the graphQLErrors of a thrown error) ends
\* in the failure mapped from its first error, whether or not it has a
\* payload.
C26_KindOf(errorType) ==
  CASE errorType = GRAPHQL_ERROR_SUDO_NOT_FOUND -> "not-found"
    [] errorType \in {GRAPHQL_ERROR_POLICY_ERROR,
                      GRAPHQL_ERROR_INSUFFICIENT_ENTITLEMENTS_ERROR} -> "denied"
    [] errorType = GRAPHQL_ERROR_CONDITIONAL_CHECK_FAILED -> "version-mismatch"
    [] errorType = GRAPHQL_ERROR_SERVER_ERROR -> "server-error"
    [] OTHER -> "unknown"
C26_FirstErrorMapped ==
  (/\ last.op \in Operations
   /\ last.log # <<>>
   /\ last.log[1].thrown \in {"none", "call"}
   /\ last.log[1].errors # <<>>)
    => LET first == Head(last.log[1].errors)
       IN /\ last.result \in {"SudoNotFoundError", "PolicyError",
                              "InsufficientEntitlementsError",
                              "VersionMismatchError", "ServiceError",
                              "UnknownGraphQLError"}
          /\ (first = GRAPHQL_ERROR_SUDO_NOT_FOUND) <=> (last.result = "SudoNotFoundError")
          /\ (last.result \in {"PolicyError", "InsufficientEntitlementsError"})
               => C26_KindOf(first) = "denied"
          /\ (first = GRAPHQL_ERROR_CONDITIONAL_CHECK_FAILED)
               <=> (last.result = "VersionMismatchError")
          /\ (first = GRAPHQL_ERROR_SERVER_ERROR) <=> (last.result = "ServiceError")
          /\ C26_KindOf(first) = "unknown" => last.result = "UnknownGraphQLError"
          /\ (rev = "A" /\ first = GRAPHQL_ERROR_POLICY_ERROR) => last.result = "PolicyError"
          /\ (rev = "B" /\ first = GRAPHQL_ERROR_INSUFFICIENT_ENTITLEMENTS_ERROR)
               => last.result = "InsufficientEntitlementsError"

\* A response without payload whose two errors are of different types has
\* ended in the failure of the first.
C26_Witness ==
  /\ last.op = "createSudo"
  /\ last.log # <<>>
  /\ last.log[1] = [thrown |-> "none",
                    errors |-> <<GRAPHQL_ERROR_CONDITIONAL_CHECK_FAILED,
                                 GRAPHQL_ERROR_SERVER_ERROR>>,
                    data |-> FALSE]
  /\ last.result = "VersionMismatchError"

\* What a successful list that is said to refresh leaves behind: it queried
\* the service, the Blob Store holds the file of every returned record that
\* has one, the cached list is the returned result set, and a list(CacheOnly)
\* that follows returns the same records.
C27_Refreshes(out) ==
  /\ "query" \in out.calls
  /\ \A n \in DOMAIN out.returned :
       out.returned[n].file # NoValue =>
         out.w.blobCache[getObjectId(out.returned[n].id)] = out.returned[n].file
  /\ Len(getCachedQueryItems(out.w)) = Len(out.returned)
  /\ \A n \in DOMAIN out.returned :
       /\ getCachedQueryItems(out.w)[n].id = out.returned[n].id
       /\ getCachedQueryItems(out.w)[n].version = out.returned[n].version
  /\ LET again == listSudos(out.w, keyStore, "cache-only")
     IN again.result = "ok" /\ again.calls = {} /\ again.returned = out.returned

\* C27: a listSudos with any fetch policy other than CacheOnly queries the
\* service, writes the decrypted file of every returned record into the Blob
\* Store and replaces the cached list with the returned result set, so that
\* a list(CacheOnly) that follows returns exactly those records.
C27_AnyRemotePolicyRefreshes ==
  \A p \in FetchOption \ {"cache-only"} :
    LET out == listSudos(World, keyStore, p)
    IN out.result = "ok" => C27_Refreshes(out)

\* C27 as the code has it: RemoteOnly, and CacheFirst while no list result
\* is cached, refresh as stated; NoCache queries the service and writes the
\* Blob Store but leaves the cached list as it was; CacheFirst with a cached
\* list result makes no remote query, returns the cached records and writes
\* their files to the Blob Store.
C27_RefreshByPolicy ==
  \A p \in FetchOption \ {"cache-only"} :
    LET out == listSudos(World, keyStore, p)
        refreshing == p = "network-only" \/ (p = "cache-first" /\ ~cacheInit)
    IN out.result = "ok" =>
         /\ refreshing => C27_Refreshes(out)
         /\ \A n \in DOMAIN out.returned :
              out.returned[n].file # NoValue =>
                out.w.blobCache[getObjectId(out.returned[n].id)] = out.returned[n].file
         /\ p = "no-cache" =>
              /\ "query" \in out.calls
              /\ out.w.cacheInit = cacheInit /\ out.w.cacheList = cacheList
         /\ (p = "cache-first" /\ cacheInit) =>
              /\ "query" \notin out.calls
              /\ out.w.cacheInit = cacheInit /\ out.w.cacheList = cacheList
              /\ Len(out.returned) = Len(cacheList)

\* A RemoteOnly list has returned a record with its file, and the cached
\* list and the Blob Store hold it.
C27_Witness ==
  /\ last.op = "listSudos" /\ last.result = "ok"
  /\ "query" \in last.calls /\ "download" \in last.calls
  /\ Len(last.returned) = 1
  /\ last.returned[1].file = "f1"
  /\ blobCache[getObjectId(last.returned[1].id)] = "f1"
  /\ cacheInit /\ Len(cacheList) = 1
  /\ listSudos(World, keyStore, "cache-only").returned = last.returned

\* C28: list(CacheOnly) makes no remote query and no download and changes
\* nothing; it returns one record per cached record, each with the bytes the
\* Blob Store holds for its blob claim and without the claim when the Blob
\* Store holds none, and such a miss does not make the call fail.
C28_CacheOnlyReadsBlobStore ==
  LET out == listSudos(World, keyStore, "cache-only")
      cached == getCachedQueryItems(World)
  IN /\ out.calls = {}
     /\ out.w = World
     /\ (\A n \in DOMAIN cached :
           cached[n].title # NoSecure => processSecureClaim(keyStore, cached[n].title).ok)
          => out.result = "ok"
     /\ out.result = "ok" =>
          /\ Len(out.returned) = Len(cached)
          /\ \A n \in DOMAIN cached :
               /\ out.returned[n].id = cached[n].id
               /\ out.returned[n].file =
                    IF cached[n].avatar = NoSecure THEN NoValue
                    ELSE blobCache[getObjectId(cached[n].id)]

\* A list(CacheOnly) has succeeded on a cached record whose blob claim has
\* no entry in the Blob Store, and returned the record without the claim.
C28_WitnessMiss ==
  /\ last.op = "listSudos" /\ last.result = "ok" /\ last.calls = {}
  /\ cacheInit /\ Len(cacheList) = 1
  /\ cacheList[1].avatar # NoSecure
  /\ blobCache[getObjectId(cacheList[1].id)] = NoValue
  /\ Len(last.returned) = 1
  /\ last.returned[1].id = cacheList[1].id
  /\ last.returned[1].file = NoValue

\* A list(CacheOnly) has returned a cached record with the bytes the Blob
\* Store holds for it.
C28_WitnessHit ==
  /\ last.op = "listSudos" /\ last.result = "ok" /\ last.calls = {}
  /\ cacheInit /\ Len(cacheList) = 1
  /\ cacheList[1].avatar # NoSecure
  /\ Len(last.returned) = 1
  /\ last.returned[1].file = "f1"
  /\ blobCache[getObjectId(cacheList[1].id)] = "f1"

\* C29: the update mutation updateSudo sends carries the encrypted claim of
\* a string claim whose value is not empty and no claim for one whose value
\* is empty; an update with an empty value that succeeds leaves the claim
\* the service holds as it was.
C29_EmptyClaimSkipped ==
  \A i \in BlobSudoIds, v \in 1..MaxVersion, t \in BlobTitleInputs,
     f \in FileInputs, a \in BOOLEAN, u \in BOOLEAN :
    LET out == updateSudo(World, keyStore, rev, Sudo(i, v, t, f), a, u)
        keyId == getSymmetricKeyId(keyStore)
    IN /\ \A n \in DOMAIN out.sent :
            /\ out.sent[n].mutation = "updateSudo"
            /\ t # "" => out.sent[n].claims =
                           Secure(keyId, Base64Encode(Ciphertext(getKey(keyStore, keyId), t)))
            /\ t = "" => out.sent[n].claims = NoSecure
       /\ out.result = "ok" =>
            /\ Len(out.sent) = 1
            /\ t = "" => Find(out.w.backend, i).title = Find(backend, i).title
            /\ t # "" => Find(out.w.backend, i).title = out.sent[1].claims

\* An updateSudo with an empty title has succeeded on a record whose title
\* the service holds, and the service still holds it.
C29_Witness ==
  /\ last.op = "updateSudo" /\ last.result = "ok"
  /\ Len(last.returned) = 1
  /\ last.returned[1].title = ""
  /\ \E item \in backend :
       /\ item.id = last.returned[1].id
       /\ item.version = last.returned[1].version
       /\ item.title # NoSecure
       /\ PlainOf(Base64Decode(item.title.data)) = "a"

\* C30: when a transport subscription completes or fails, every subscriber's
\* Disconnected notification is delivered before the manager's subscribers
\* and its transport handle are cleared.
C30_NotifiedBeforeCleared ==
  last.op \in {"complete", "error"} =>
    \A i, j \in DOMAIN last.log :
      (/\ last.log[i].kind = "connectionStatusChanged"
       /\ last.log[i].arg = "Disconnected"
       /\ last.log[j].kind = "cleared")
        => i < j

\* C30 as the code has it: when a transport subscription completes or
\* fails, the manager's subscribers and its transport handle are cleared
\* first, and then each subscriber that was registered is delivered one
\* Disconnected notification, in the order of registration.
C30_ClearedThenNotified ==
  [][\A ct \in ChangeTypes :
       (TransportComplete(ct) \/ TransportError(ct)) =>
         /\ Len(last'.log) = Len(subs[ct].subscribers) + 1
         /\ last'.log[1] = Note("cleared", "", ct, "Disconnected", NoId)
         /\ \A k \in DOMAIN subs[ct].subscribers :
              last'.log[k + 1] = Note("connectionStatusChanged", subs[ct].subscribers[k],
                                      ct, "Disconnected", NoId)
         /\ subs'[ct] = IdleManager
         /\ open'[ct] = 0]_vars

\* A transport subscription with two subscribers has ended: the manager was
\* cleared and then both were told Disconnected.
C30_Witness ==
  /\ last.op \in {"complete", "error"}
  /\ Len(last.log) = 3
  /\ last.log[1].kind = "cleared"
  /\ last.log[2].kind = "connectionStatusChanged" /\ last.log[2].arg = "Disconnected"
  /\ last.log[3].kind = "connectionStatusChanged" /\ last.log[3].arg = "Disconnected"
  /\ last.log[2].listener # last.log[3].listener
  /\ subs[last.log[1].ct] = IdleManager

\* C31: the next callback of every change type patches the cached list
\* before it calls any subscriber, and what it leaves cached, which is what
\* a list(CacheOnly) from inside sudoChanged reads, holds the event: the
\* created or updated record with its version, and no record of a deleted
\* id.
C31_PatchedBeforeListeners ==
  \A e \in pending :
    open[e.ct] > 0 =>
      LET out == Handled(e.ct, e.data)
          seen == listSudos(out.w, keyStore, "cache-only")
          Same(k) == seen.returned[k].id = e.data.id
      IN out.result = "ok" =>
           /\ out.log # <<>>
           /\ out.log[1] = Note("patched", "", e.ct, "", e.data.id)
           /\ \A k \in Invocations(out.log) : k > 1
           /\ seen.result = "ok"
           /\ e.ct \in {"Create", "Update"} =>
                \E k \in DOMAIN seen.returned :
                  Same(k) /\ seen.returned[k].version = e.data.version
           /\ e.ct = "Update" =>
                \A k \in DOMAIN seen.returned :
                  Same(k) => seen.returned[k].version = e.data.version
           /\ e.ct = "Delete" => \A k \in DOMAIN seen.returned : ~Same(k)

\* An Update event has been handled with a subscriber registered: the patch
\* came first, the subscriber was called, and the cached list holds the
\* record at the version the event carried.
C31_Witness ==
  /\ last.op = "onUpdateSudo" /\ last.result = "ok"
  /\ Len(last.log) >= 2
  /\ last.log[1].kind = "patched"
  /\ last.log[2].kind = "sudoChanged"
  /\ \E k \in DOMAIN cacheList :
       cacheList[k].id = last.log[2].sid /\ cacheList[k].version = 2

\* The version under which an id is cached, 0 when it is not cached.
C32_CachedVersions(cached, i) ==
  {cached[k].version : k \in {n \in DOMAIN cached : cached[n].id = i}}

\* C32: when a pushed event is handled while another pushed event or a call
\* of this client is being handled, the cached list afterwards holds the
\* effect of both: the next callback that finishes leaves every other
\* record cached as it found it, so that no record inserted or replaced in
\* the meantime is lost and no record removed in the meantime reappears.
C32_BothEffectsKept ==
  [][\A h \in inflight :
       OnNextResumes(h) =>
         \A i \in SudoIds \ {h.data.id} :
           C32_CachedVersions(getCachedQueryItems(World)', i)
             = C32_CachedVersions(getCachedQueryItems(World), i)]_vars

\* C33: a deleteSudo whose delete mutation fails, as with a version
\* mismatch, leaves the Blob Store and object storage as they were before
\* the call.
C33_FailedDeleteKeepsBlobs ==
  \A i \in BlobSudoIds, v \in 1..MaxVersion, d \in BOOLEAN :
    LET out == deleteSudo(World, keyStore, rev, Sudo(i, v, NoValue, NoValue), d)
    IN ("deleteMutation" \in out.calls /\ out.result # "ok")
         => /\ out.w.blobCache = blobCache
            /\ out.w.s3 = s3

\* C34: an updateSudo that fails, at whatever step, leaves nothing it wrote
\* in the Blob Store or in object storage, and every Blob Store entry that
\* was there before the call is still there.
C34_FailedUpdateLeavesNothing ==
  \A i \in BlobSudoIds, v \in 1..MaxVersion, t \in BlobTitleInputs,
     f \in FileInputs, a \in BOOLEAN, u \in BOOLEAN :
    LET out == updateSudo(World, keyStore, rev, Sudo(i, v, t, f), a, u)
    IN out.result # "ok"
         => /\ out.w.blobCache = blobCache
            /\ out.w.s3 = s3

\* C35: a createSudo that fails after its create mutation succeeded leaves
\* no record it created at the service and leaves the caller's Sudo object
\* without id and version.
C35_FailedCreateLeavesNothing ==
  \A t \in BlobTitleInputs, f \in FileInputs, a \in BOOLEAN, u \in BOOLEAN :
    LET sudo == Sudo(NoId, 0, t, f)
        out == createSudo(World, keyStore, rev, sudo, a, u)
        after == createSudoAssigns(World, keyStore, rev, sudo, a, u)
    IN ("createMutation" \in out.calls /\ out.result # "ok")
         => /\ Ids(out.w.backend) = Ids(backend)
            /\ after.id = NoId
            /\ after.version = 0

\* C36: subscribe calls that overlap open one transport subscription between
\* them.  No change type ever has more than one transport subscription
\* open, and whenever a suspended subscribe resumes with a signed-in owner
\* and its transport does not fail while it is being opened, its listener
\* is registered afterwards, every listener registered before stays
\* registered, and it opens a transport subscription exactly when the
\* manager held no watcher: of two calls made while the change type was
\* Idle the first to resume opens the transport and the second joins it.
C36_Registered(m) == Range(m.subscribers)
C36_OneTransportForBoth ==
  /\ [](\A ct \in ChangeTypes : open[ct] <= 1)
  /\ [][\A h \in inflight :
          (SubscribeResumes(h, FALSE) /\ h.read.owner) =>
            /\ C36_Registered(subs'[h.ct]) = C36_Registered(subs[h.ct]) \cup {h.id}
            /\ subs'[h.ct].watcher /\ subs'[h.ct].subscription = "open"
            /\ open'[h.ct] = 1
            /\ ("watcher.subscribe" \in last'.calls) = ~subs[h.ct].watcher]_vars

\* Two calls were made while the change type was Idle; the second to resume
\* opened nothing and both listeners are registered on the one transport
\* subscription.
C36_Witness ==
  \E ct \in ChangeTypes :
    /\ last.op = "subscribe" /\ last.result = "ok" /\ last.calls = {}
    /\ Len(last.returned) = 1
    /\ last.returned[1].ct = ct
    /\ ~last.returned[1].read.watcher
    /\ C36_Registered(subs[ct]) = Listeners
    /\ open[ct] = 1

\* C37: in every reachable state and for each change type, the manager has
\* a subscriber exactly when it holds a watcher, and it holds a watcher
\* exactly when it holds a transport subscription handle, whatever
\* subscribe, unsubscribe, unsubscribeAll calls and transport completions
\* and errors came before, an error delivered while subscribe is opening
\* the transport included.
C37_Held(m) ==
  /\ (m.subscribers # <<>>) = m.watcher
  /\ m.watcher = (m.subscription # "none")
C37_ListenersWatcherHandle == \A ct \in ChangeTypes : C37_Held(subs[ct])

\* C38: encrypt and decrypt never change the key registry.  In every step
\* that is an encrypt or a decrypt call, failed or not, getKey returns for
\* every name, the key id the call used included, the same bytes after the
\* call as before it, although a successful call ends by zeroing the key
\* buffer it was given.
C38_SameKeys ==
  \A n \in KeyNames : getKey(keyStore', n) = getKey(keyStore, n)
C39_AliasAndKeysApart ==
  [][/\ last'.op = "insertKey" =>
          getSymmetricKeyId(keyStore') = getSymmetricKeyId(keyStore)
     /\ last'.op = "setSymmetricKeyId" =>
          \A n \in KeyNames : getKey(keyStore', n) = getKey(keyStore, n)]_vars

\* C40: the payload encrypt returns is the cipher's output followed by the
\* 16 bytes of the IV, decrypt takes from that payload exactly that output
\* and that IV by splitting off the last 16 bytes, and for all buffers l
\* and r split(concat(l, r), length(l)) returns l and r.
C40_CiphertextThenIv ==
  /\ last.op = "payload" =>
       /\ last.returned[1] = last.log[1] \o last.log[2]
       /\ Len(last.log[2]) = 16
       /\ Len(last.returned[1]) = Len(last.log[1]) + 16
  /\ last.op = "parts" => last.returned = last.log
  /\ last.op = "concat" => last.returned[1] = last.log[1] \o last.log[2]
  /\ last.op = "split" => last.returned = last.log

\* decrypt has taken a payload of a non-empty cipher output and an IV of
\* differing bytes apart.
C40_Witness ==
  /\ last.op = "parts"
  /\ Len(last.returned[1]) = MaxBufLen
  /\ last.returned[2] = [i \in 1..ivSize |-> i % 2]

====
